---- MODULE Spec2Model ----
(***************************************************************************)
(* Session orchestration of backend/orchestrator.py: the Orchestrator      *)
(* object (start / stop / process_message), the loop task _run_loop it     *)
(* spawns, and the ReportManager, AgentCore and BrowserService calls the   *)
(* loop makes.  Coroutines are cut at their await points: one action is    *)
(* the code that runs from one await to the next.                          *)
(***************************************************************************)
EXTENDS Integers, Sequences, FiniteSets, TLC

\* ---------------------------------------------------------------- bounds
MaxSessions == 2      \* Start calls issued by the transport side
MaxHistory == 2       \* entries of task_history after which the service ends the session
MaxQueue == 1         \* next_step messages waiting in msg_queue
MaxStops == 2         \* stop calls within one report session

Sessions == 1..MaxSessions
None == 0             \* Python None for active_task / current_report_dir
NoneV == "None"       \* Python None for string-valued fields
Goals == {"g1"}

\* ------------------------------------------------------------ dictionaries
\* dict.get(key, default)
Get(d, k, dflt) == IF k \in DOMAIN d THEN d[k] ELSE dflt

EmptyDict == [k \in {} |-> NoneV]

\* A value json.loads can return that is not a dict (a list, a string, a number).
NonDict == [nondict |-> TRUE]

IsDict(v) == "nondict" \notin DOMAIN v

\* ------------------------------------------------------------------ state
VARIABLES
    \* Orchestrator fields
    is_running, current_goal, task_history, active_task, msg_queue,
    \* ReportManager fields, and report.json of the current report directory
    current_report_dir, report_data, report_json,
    \* BrowserService.page is set
    page,
    \* the loop tasks: position, pending cancellation, argument, locals
    taskpc, cancel_req, step_by_step, full_decision, use_pro,
    \* the coroutine handling the current control call
    ctlpc, ctlret, ctlargs,
    \* Start calls issued so far
    nstarts,
    \* what an observer of the current report session has seen, in order: the
    \* ReportSink calls, the websocket notifications, the loop's operations and
    \* the calls and returns of stop; and whether a next_step has been received
    \* since the loop reached the pause checkpoint it is at
    trace, acked,
    \* one call of BrowserService.execute_action: its arguments with what the
    \* driver does, and what the call did
    exec_call, exec_result,
    \* one call of BrowserService.get_accessibility_snapshot: the nodes of the raw
    \* tree, and the dict returned
    nodes, snapshot,
    \* BrowserService event buffers; the notifications delivered so far and the
    \* dicts returned by get_and_clear_events so far
    console_logs, network_errors, delivered, returned,
    \* the local `events` of the running loop (orchestrator.py:89, main.py:103)
    events,
    \* the websocket accepts sends (the client has not gone away)
    ws_open,
    \* main.websocket_endpoint: its position, its locals goal, step_by_step,
    \* history and full_decision, and the number of texts its receiver task has
    \* read.  Its msg_queue (raw texts put by the receiver task), the page and the
    \* record of what was sent are the variables above.
    endpoint

orchVars == <<is_running, current_goal, task_history, active_task, msg_queue>>
repVars == <<current_report_dir, report_data, report_json>>
taskVars == <<taskpc, cancel_req, step_by_step, full_decision, use_pro>>
ctlVars == <<ctlpc, ctlret, ctlargs>>
execVars == <<exec_call, exec_result>>
axVars == <<nodes, snapshot>>
eventVars == <<console_logs, network_errors, delivered, returned, events>>
browserVars == <<execVars, axVars, eventVars>>
otherVars == <<browserVars, ws_open, endpoint>>
sessionVars ==
    <<orchVars, repVars, page, taskVars, ctlVars, nstarts, trace, acked, ws_open, endpoint>>
vars == <<sessionVars, browserVars>>

\* One observed event: its kind, the loop task it belongs to (None for the control
\* side) and a detail.
Ev(kind, task, arg) == [kind |-> kind, task |-> task, arg |-> arg]

Count(seq, kinds) == Cardinality({i \in DOMAIN seq : seq[i].kind \in kinds})

BlankReport == [session_id |-> None, goal |-> "", status |-> "running", steps |-> <<>>]

NoFile == [session_id |-> None, goal |-> "", status |-> "absent", steps |-> <<>>]

\* No call in progress.
NoCall == [none |-> TRUE]

\* No execute_action call made yet.
ExecInit == exec_call = NoCall /\ exec_result = NoCall

\* No get_accessibility_snapshot call made yet.
AxInit == nodes = <<>> /\ snapshot = NoCall

\* BrowserService.__init__, lines 13-14: empty event buffers.
EventInit ==
    /\ console_logs = <<>>
    /\ network_errors = <<>>
    /\ delivered = <<>>
    /\ returned = <<>>
    /\ events = [console |-> <<>>, errors |-> <<>>]

\* BrowserService.__init__: no page until start() (line 24).
BrowserInit == page = FALSE /\ ExecInit /\ AxInit /\ EventInit

\* websocket_endpoint is at its first await (line 57) with no goal yet, and its
\* receiver task has read nothing.  received counts the texts read; late holds the
\* numbers, in that count, of the goal messages read while the inner loop was
\* running.
EndpointInit ==
    [pc |-> "browser_start", goal |-> NoneV, step_by_step |-> FALSE, history |-> <<>>,
     full_decision |-> EmptyDict, received |-> 0, late |-> {}]

\* Orchestrator.__init__ and ReportManager.__init__: no session yet.
SessionInit ==
    /\ ws_open = TRUE
    /\ endpoint = EndpointInit
    /\ is_running = FALSE
    /\ current_goal = NoneV
    /\ task_history = <<>>
    /\ active_task = None
    /\ msg_queue = <<>>
    /\ current_report_dir = None
    /\ report_data = BlankReport
    /\ report_json = NoFile
    /\ taskpc = [t \in Sessions |-> "none"]
    /\ cancel_req = [t \in Sessions |-> FALSE]
    /\ step_by_step = [t \in Sessions |-> FALSE]
    /\ full_decision = [t \in Sessions |-> EmptyDict]
    /\ use_pro = [t \in Sessions |-> FALSE]
    /\ ctlpc = "idle"
    /\ ctlret = "idle"
    /\ ctlargs = [goal |-> NoneV, step |-> FALSE]
    /\ nstarts = 0
    /\ trace = <<>>
    /\ acked = FALSE

Init == SessionInit /\ BrowserInit

\* ------------------------------------------------------ ReportManager
\* ReportManager._save_report: writes report.json only when a report directory exists.
SaveReport(file, dir, rd) == IF dir = None THEN file ELSE rd

\* ReportManager.start_session: a new directory and fresh report_data (nothing is saved yet).
StartSessionData(sid, goal) ==
    [session_id |-> sid, goal |-> goal, status |-> "running", steps |-> <<>>]

\* The step record of log_step, lines 64-72: the index and the decision's action
\* (timestamp, url, screenshot, thought and plan are not modelled).
StepRecord(step_index, decision) ==
    [step_index |-> step_index, action |-> Get(decision, "action", EmptyDict)]

\* log_step keeping the last record only.
LogStepData_Replace(rd, dir, step_index, decision) ==
    IF dir = None THEN rd ELSE [rd EXCEPT !.steps = <<StepRecord(step_index, decision)>>]

\* ReportManager.log_step: no-op without a report directory, else append (and save).
LogStepData(rd, dir, step_index, decision) ==
    IF dir = None THEN rd
    ELSE [rd EXCEPT !.steps = Append(@, StepRecord(step_index, decision))]

\* ReportManager.end_session: sets the status of the current report_data (and saves).
EndSessionData(rd, status) == [rd EXCEPT !.status = status]

\* Orchestrator.send_report_link by `who`: report{url} unless there is no report directory.
SendReportLink(tr, who) ==
    IF current_report_dir = None THEN tr ELSE Append(tr, Ev("report", who, "url"))

\* ------------------------------------------------------ control calls
\* The caller of start and process_message handles one control message at a time:
\* it awaits the call it made before it reads the next message, and it reads
\* messages while the connection is open.
ControlIdle == ctlpc = "idle" /\ ws_open

\* ------------------------------------------------------ Orchestrator.stop
\* lines 64-66 begin: the "Execution Interrupted" log.
InterruptedLog(tr) == Append(tr, Ev("log", None, "Interrupted"))

\* The position of the active loop task when stop is called.
Phase == IF active_task = None THEN "none" ELSE taskpc[active_task]

\* stop without lines 52-58: the flag is cleared and the task is neither cancelled
\* nor awaited.
Stop_Enter_NoCancel(ret) ==
    /\ is_running' = FALSE
    /\ ctlret' = ret
    /\ ctlpc' = "stop_log"
    /\ trace' = InterruptedLog(Append(trace, Ev("stop_called", active_task, Phase)))
    /\ UNCHANGED cancel_req

\* stop, lines 51-56: clear the flag, cancel the loop task if it is not done and
\* await it; with no live task go on to line 64 (send_log).
Stop_Enter(ret) ==
    /\ is_running' = FALSE
    /\ ctlret' = ret
    /\ IF active_task # None /\ taskpc[active_task] # "done"
         THEN /\ cancel_req' = [cancel_req EXCEPT ![active_task] = TRUE]
              /\ ctlpc' = "stop_await"
              /\ trace' = Append(trace, Ev("stop_called", active_task, Phase))
         ELSE /\ ctlpc' = "stop_log"
              /\ trace' = InterruptedLog(Append(trace, Ev("stop_called", active_task, Phase)))
              /\ UNCHANGED cancel_req

\* stop without the await of line 56: the log is sent while the task may still run.
Stop_Awaited_NoWait ==
    /\ ctlpc = "stop_await"
    /\ ctlpc' = "stop_log"
    /\ trace' = InterruptedLog(trace)
    /\ UNCHANGED <<orchVars, repVars, page, taskVars, ctlret, ctlargs, nstarts, acked>>
    /\ UNCHANGED otherVars

\* stop, lines 56-64: the awaited task is done (CancelledError is swallowed); send the log.
Stop_Awaited ==
    /\ ctlpc = "stop_await"
    /\ taskpc[active_task] = "done"
    /\ ctlpc' = "stop_log"
    /\ trace' = InterruptedLog(trace)
    /\ UNCHANGED <<orchVars, repVars, page, taskVars, ctlret, ctlargs, nstarts, acked>>
    /\ UNCHANGED otherVars

\* stop without line 65: the report link is sent and the status is not recorded.
Stop_Logged_NoEndSession ==
    /\ ctlpc = "stop_log"
    /\ ws_open
    /\ trace' = SendReportLink(trace, None)
    /\ ctlpc' = "stop_report"
    /\ UNCHANGED <<orchVars, repVars, page, taskVars, ctlret, ctlargs, nstarts, acked>>
    /\ UNCHANGED otherVars

\* stop, lines 65-66: end_session("stopped") and send_report_link.
Stop_Logged ==
    /\ ctlpc = "stop_log"
    /\ ws_open
    /\ report_data' = EndSessionData(report_data, "stopped")
    /\ report_json' = SaveReport(report_json, current_report_dir, report_data')
    /\ trace' = SendReportLink(Append(trace, Ev("EndSession", None, "stopped")), None)
    /\ ctlpc' = "stop_report"
    /\ UNCHANGED <<orchVars, current_report_dir, page, taskVars, ctlret, ctlargs, nstarts,
                   acked>>
    /\ UNCHANGED otherVars

\* start, lines 33-38: the new goal, an empty history, the flag, then browser_service.start().
StartBody(goal) ==
    /\ current_goal' = goal
    /\ task_history' = <<>>
    /\ is_running' = TRUE
    /\ ctlpc' = "start_browser"

\* stop returns: to process_message's caller, or into start at line 33.
Stop_Return ==
    /\ ctlpc = "stop_report"
    /\ trace' = Append(trace, Ev("stop_returned", active_task, "-"))
    /\ IF ctlret = "start"
         THEN StartBody(ctlargs.goal)
         ELSE /\ ctlpc' = "idle"
              /\ UNCHANGED <<current_goal, task_history, is_running>>
    /\ ctlret' = "idle"
    /\ UNCHANGED <<active_task, msg_queue, repVars, page, taskVars, ctlargs, nstarts, acked>>
    /\ UNCHANGED otherVars

\* ------------------------------------------------------ Orchestrator.start
\* start without lines 30-31: a running session is not stopped first.
Start_NoStop(goal, step) ==
    /\ ControlIdle
    /\ nstarts < MaxSessions
    /\ nstarts' = nstarts + 1
    /\ ctlargs' = [goal |-> goal, step |-> step]
    /\ StartBody(goal)
    /\ UNCHANGED <<active_task, msg_queue, repVars, page, taskVars, ctlret, trace, acked>>
    /\ UNCHANGED otherVars

\* start, lines 30-35: a running session is stopped first (stop is awaited).
Start(goal, step) ==
    /\ ControlIdle
    /\ nstarts < MaxSessions
    /\ nstarts' = nstarts + 1
    /\ ctlargs' = [goal |-> goal, step |-> step]
    /\ IF is_running
         THEN /\ Stop_Enter("start")
              /\ UNCHANGED <<current_goal, task_history>>
         ELSE /\ StartBody(goal)
              /\ UNCHANGED <<ctlret, cancel_req, trace>>
    /\ UNCHANGED <<active_task, msg_queue, repVars, page, taskpc, step_by_step,
                   full_decision, use_pro, acked>>
    /\ UNCHANGED otherVars

\* start, lines 38-39: the browser is up; send the first log.
Start_BrowserUp ==
    /\ ctlpc = "start_browser"
    /\ page' = TRUE
    /\ ctlpc' = "start_log1"
    /\ UNCHANGED <<orchVars, repVars, taskVars, ctlret, ctlargs, nstarts, trace, acked>>
    /\ UNCHANGED otherVars

\* start, lines 39-43: the first log is out; start_session(goal), then the second log.  A new report
\* session begins: its directory holds no report.json yet, and the observer's
\* record starts afresh.
Start_Session ==
    /\ ctlpc = "start_log1"
    /\ ws_open
    /\ current_report_dir' = nstarts
    /\ report_data' = StartSessionData(nstarts, ctlargs.goal)
    /\ report_json' = NoFile
    /\ trace' = <<>>
    /\ ctlpc' = "start_log2"
    /\ UNCHANGED <<orchVars, page, taskVars, ctlret, ctlargs, nstarts, acked>>
    /\ UNCHANGED otherVars

\* start, lines 43-47: the second log is out; create the loop task and return.
Start_Spawn ==
    /\ ctlpc = "start_log2"
    /\ ws_open
    /\ active_task' = nstarts
    /\ taskpc' = [taskpc EXCEPT ![nstarts] = "new"]
    /\ step_by_step' = [step_by_step EXCEPT ![nstarts] = ctlargs.step]
    /\ ctlpc' = "idle"
    /\ UNCHANGED <<is_running, current_goal, task_history, msg_queue, repVars, page,
                   cancel_req, full_decision, use_pro, ctlret, ctlargs, nstarts, trace,
                   acked>>
    /\ UNCHANGED otherVars

\* ------------------------------------------- Orchestrator.process_message
RawMsgs == {"stop", "next_step", "unknown", "json_list", "not_json"}

\* json.loads(raw_msg): a dict, another JSON value, or an exception.
JsonLoads(raw) ==
    CASE raw = "stop" -> [type |-> "stop"]
      [] raw = "next_step" -> [type |-> "next_step"]
      [] raw = "unknown" -> [type |-> "resume"]
      [] raw = "goal" -> [goal |-> "g1", step_by_step |-> FALSE]
      [] raw = "goal_step" -> [goal |-> "g1", step_by_step |-> TRUE]
      [] raw = "json_list" -> NonDict
      [] OTHER -> [raises |-> TRUE]

\* msg.get("type") of process_message; any exception is caught at line 79.
MsgType(raw) ==
    LET msg == JsonLoads(raw)
    IN IF "raises" \in DOMAIN msg \/ ~IsDict(msg) THEN "exception"
       ELSE Get(msg, "type", NoneV)

\* A loop task is at the pause checkpoint (pause sent, msg_queue.get pending).
PausedPcs == {"send_pause", "paused"}

Paused(t) == taskpc[t] \in PausedPcs

ProcessMessage(raw) ==
    /\ ControlIdle
    /\ CASE MsgType(raw) = "stop" ->
              /\ Count(trace, {"stop_called"}) < MaxStops
              /\ Stop_Enter("idle")
              /\ UNCHANGED <<msg_queue, acked>>
         [] MsgType(raw) = "next_step" ->
              /\ Len(msg_queue) < MaxQueue
              /\ msg_queue' = Append(msg_queue, JsonLoads(raw))
              /\ acked' = \E t \in Sessions : Paused(t)
              /\ UNCHANGED <<is_running, ctlpc, ctlret, cancel_req, trace>>
         [] OTHER ->
              UNCHANGED <<msg_queue, acked, is_running, ctlpc, ctlret, cancel_req, trace>>
    /\ UNCHANGED <<current_goal, task_history, active_task, repVars, page, taskpc,
                   step_by_step, full_decision, use_pro, ctlargs, nstarts>>
    /\ UNCHANGED otherVars

\* ------------------------------------------------------ AgentCore
\* What the decision service does with one call: a JSON decision of some action
\* type, or a failure (transport, timeout, unparsable body).
Responses == {"finish", "fail", "press", "error"}

DecisionPayload(resp) ==
    CASE resp = "finish" ->
           [thought |-> "t", action |-> [type |-> "finish", reason |-> "goal reached"]]
      [] resp = "fail" ->
           [thought |-> "t", action |-> [type |-> "fail", reason |-> "blocked"]]
      [] resp = "click_locator" ->
           [thought |-> "t", action |-> [type |-> "click", description |-> "d",
                                         locator |-> "#go"]]
      [] resp = "click_selector" ->
           [thought |-> "t", action |-> [type |-> "click", description |-> "d",
                                         selector |-> "#go"]]
      [] resp = "click_node" ->
           [thought |-> "t", action |-> [type |-> "click", nodeId |-> "n1",
                                         locator |-> "#go"]]
      [] resp = "drag" ->
           [thought |-> "t", action |-> [type |-> "drag", description |-> "d"]]
      [] resp = "untyped" -> [thought |-> "t", action |-> [description |-> "d"]]
      [] resp = "no_action" -> [thought |-> "t", plan |-> "p"]
      [] resp = "null_action" -> [thought |-> "t", action |-> NonDict]
      [] resp = "json_list" -> NonDict
      [] OTHER ->
           [thought |-> "t", plan |-> "p",
            action |-> [type |-> "press", description |-> "d", value |-> "Enter"]]

\* AgentCore.analyze_state_and_decide, lines 84-96: json.loads of the response text,
\* and on any exception the dict of line 96 (type/reason/description at top level).
AnalyzeStateAndDecide(resp) ==
    CASE resp = "error" ->
           [type |-> "fail", reason |-> "Agent error", description |-> "Error thinking"]
      [] OTHER -> DecisionPayload(resp)

\* The responses after which the loop cannot append to task_history.
EndsSession(resp) == resp \in {"finish", "fail"}

\* ------------------------------------------------------ BrowserService
\* Python's `a or b` on optional strings.
PyOr(a, b) == IF a # NoneV /\ a # "" THEN a ELSE b

\* Python truthiness of an optional string.
Truthy(v) == v # NoneV /\ v # ""

\* What the driver does in the steps of one execute_action call: resolving the
\* node to a box (lines 116-123), the tier 1 moves and clicks (132-155), the idle
\* wait of line 157, the locator action (170-181), the idle wait of line 183,
\* and the primitive of tier 3 (189-201).
Drivers ==
    [resolve : {"found", "absent", "nobox", "error"},
     t1act : {"ok", "fail"}, t1idle : {"ok", "timeout"},
     t2act : {"ok", "fail"}, t2idle : {"ok", "timeout"},
     t3 : {"ok", "fail"}]

\* One interaction performed on the page.
Did(tier, kind) == [tier |-> tier, kind |-> kind]

\* What one tier comes to: "done" (execute_action returns), "next" (go on to the
\* code below) or "raise"; the interactions it performed; whether it was entered.
TierResult(status, did, tried) == [status |-> status, did |-> did, tried |-> tried]

\* Lines 112-163 with the exception of line 161 not caught.
Tier1_Uncaught(action_type, value, node_id, drv) ==
    IF ~(Truthy(node_id) /\ action_type \in {"click", "type", "hover"})
      THEN TierResult("next", <<>>, <<>>)
    ELSE IF drv.resolve = "error" \/ (drv.resolve = "found" /\ drv.t1act = "fail")
      THEN TierResult("raise", <<>>, <<1>>)
    ELSE IF drv.resolve # "found"
      THEN TierResult("next", <<>>, <<1>>)
    ELSE IF action_type = "type" /\ value = NoneV
      THEN TierResult("raise", <<Did(1, "click")>>, <<1>>)
    ELSE IF drv.t1idle = "timeout"
      THEN TierResult("raise", <<Did(1, action_type)>>, <<1>>)
    ELSE TierResult("done", <<Did(1, action_type)>>, <<1>>)

\* Tier 1, lines 112-163: the protocol interaction.  Everything in the try that
\* raises, the idle wait of line 157 included, is caught at line 161 and the code
\* goes on to tier 2.  keyboard.type(None) raises after the click was made.
Tier1(action_type, value, node_id, drv) ==
    IF ~(Truthy(node_id) /\ action_type \in {"click", "type", "hover"})
      THEN TierResult("next", <<>>, <<>>)
    ELSE IF drv.resolve # "found" \/ drv.t1act = "fail"
      THEN TierResult("next", <<>>, <<1>>)
    ELSE IF action_type = "type" /\ value = NoneV
      THEN TierResult("next", <<Did(1, "click")>>, <<1>>)
    ELSE IF drv.t1idle = "timeout"
      THEN TierResult("next", <<Did(1, action_type)>>, <<1>>)
    ELSE TierResult("done", <<Did(1, action_type)>>, <<1>>)

\* Tier 2, lines 166-186: the locator interaction; exceptions are caught at line 185.
Tier2(action_type, selector, value, drv) ==
    IF ~(Truthy(selector) /\ action_type \in {"click", "type", "hover", "scroll"})
      THEN TierResult("next", <<>>, <<>>)
    ELSE IF drv.t2act = "fail" \/ (action_type = "type" /\ value = NoneV)
      THEN TierResult("next", <<>>, <<2>>)
    ELSE IF drv.t2idle = "timeout"
      THEN TierResult("next", <<Did(2, action_type)>>, <<2>>)
    ELSE TierResult("done", <<Did(2, action_type)>>, <<2>>)

\* Tier 3, lines 189-206: navigate, press and the untargeted scroll are not inside
\* a try; the last idle wait is.
Tier3(action_type, selector, value, drv) ==
    IF action_type = "navigate"
      THEN IF ~Truthy(PyOr(value, selector)) THEN TierResult("done", <<>>, <<>>)
           ELSE IF drv.t3 = "ok" THEN TierResult("done", <<Did(3, action_type)>>, <<3>>)
           ELSE TierResult("raise", <<>>, <<3>>)
    ELSE IF action_type = "press" \/ (action_type = "scroll" /\ ~Truthy(selector))
      THEN IF drv.t3 = "ok" /\ ~(action_type = "press" /\ value = NoneV)
             THEN TierResult("done", <<Did(3, action_type)>>, <<3>>)
             ELSE TierResult("raise", <<>>, <<3>>)
    ELSE TierResult("done", <<>>, <<>>)

\* The outcome of a call with the interactions performed and the tiers entered.
Outcome(status, r) ==
    [outcome |-> IF status = "raise" THEN "raise" ELSE "return", did |-> r.did,
     tried |-> r.tried]

Then(r1, r2) == TierResult(r2.status, r1.did \o r2.did, r1.tried \o r2.tried)

\* BrowserService.execute_action, lines 104-206.
execute_action(action_type, selector, value, node_id, has_page, drv) ==
    IF ~has_page THEN Outcome("raise", TierResult("raise", <<>>, <<>>))
    ELSE LET r1 == Tier1(action_type, value, node_id, drv)
             r2 == Then(r1, Tier2(action_type, selector, value, drv))
             r3 == Then(r2, Tier3(action_type, selector, value, drv))
         IN IF r1.status # "next" THEN Outcome(r1.status, r1)
            ELSE IF r2.status # "next" THEN Outcome(r2.status, r2)
            ELSE Outcome(r3.status, r3)

\* ------------------------------------------------------ Orchestrator._run_loop
\* line 99 without its second disjunct: the escalated tier for an empty history only.
UsePro_EmptyOnly(history) == Len(history) = 0

\* line 99
UsePro(history) ==
    \/ Len(history) = 0
    \/ Get(Get(history[Len(history)], "action", EmptyDict), "type", NoneV) = "fail"

SetPc(t, pc) == [taskpc EXCEPT ![t] = pc]

\* The coroutine has ended: the task is done and its argument and locals are gone.
Finished(t) ==
    /\ taskpc' = SetPc(t, "done")
    /\ step_by_step' = [step_by_step EXCEPT ![t] = FALSE]
    /\ full_decision' = [full_decision EXCEPT ![t] = EmptyDict]
    /\ use_pro' = [use_pro EXCEPT ![t] = FALSE]

\* The finally clause, lines 177-181; tr is the record as the code before it left it.
\* Nothing from here on reads the task's argument or locals.
Finally(t, tr) ==
    /\ is_running' = FALSE
    /\ trace' = SendReportLink(tr, t)
    /\ taskpc' = SetPc(t, IF current_report_dir = None THEN "done" ELSE "finally_report")
    /\ step_by_step' = [step_by_step EXCEPT ![t] = FALSE]
    /\ full_decision' = [full_decision EXCEPT ![t] = EmptyDict]
    /\ use_pro' = [use_pro EXCEPT ![t] = FALSE]

\* `while self.is_running`, line 85, and the first await of the body, line 87.
LoopTop(t, tr) ==
    IF is_running
      THEN /\ taskpc' = SetPc(t, "observe")
           /\ trace' = Append(tr, Ev("observe", t, "-"))
           /\ UNCHANGED <<is_running, step_by_step, full_decision, use_pro>>
      ELSE Finally(t, tr)

\* `except Exception`, lines 173-176: the error notification.
Except(t, tr) ==
    /\ taskpc' = SetPc(t, "send_critical")
    /\ trace' = Append(tr, Ev("error", t, "critical"))
    /\ UNCHANGED <<is_running, step_by_step, use_pro>>

\* The positions at which the loop task awaits a websocket send: lines 91-94, 112,
\* 133, 134, 140, 141, 147, 161, 164, 176 and 181.
SendPcs ==
    {"observe", "send_thought", "fin_report", "fin_notify", "fail_report", "fail_notify",
     "send_exec", "post_sense", "send_pause", "send_critical", "finally_report"}

\* The task is at position pc, what it awaits there is done, and no cancellation
\* is pending; a send is done only on an open websocket.
At(t, pc) == taskpc[t] = pc /\ ~cancel_req[t] /\ (pc \in SendPcs => ws_open)

loopFrame == <<current_goal, active_task, repVars, page, cancel_req, ctlVars, nstarts>>

\* The task runs for the first time.
Loop_Enter(t) ==
    /\ At(t, "new")
    /\ LoopTop(t, trace)
    /\ UNCHANGED <<loopFrame, task_history, msg_queue, acked>>
    /\ UNCHANGED otherVars

\* lines 87-104.  The awaits of lines 87, 88, 91 and 94 (screenshot, snapshot, state
\* and "Thinking..." notifications) are one position: nothing the loop or a control
\* call reads changes between them.  Then the cancellation check of line 97, the
\* tier of line 99 and the call of the decision service.
Loop_Observed(t) ==
    /\ At(t, "observe")
    /\ IF ~is_running
         THEN Finally(t, trace)
         ELSE /\ use_pro' = [use_pro EXCEPT ![t] = UsePro(task_history)]
              /\ taskpc' = SetPc(t, "decide")
              /\ trace' = Append(trace, Ev("decide", t,
                                           IF UsePro(task_history) THEN "pro" ELSE "flash"))
              /\ UNCHANGED <<is_running, step_by_step, full_decision>>
    /\ UNCHANGED <<loopFrame, task_history, msg_queue, acked>>
    /\ UNCHANGED otherVars

\* lines 106-110 (main.py 123-127): full_decision.get on a value that is not a dict,
\* or decision.get on an "action" that is not one, raises AttributeError.
GetRaises(fd) == ~IsDict(fd) \/ ~IsDict(Get(fd, "action", EmptyDict))

\* lines 102-112 for the response resp of the service: the decision is back; a
\* value that is not a dict raises at line 106 (an "action" that is not a dict at
\* line 110), else the plan log (if any) and the thought notification are sent
\* (one position).
Decided(t, resp) ==
    /\ At(t, "decide")
    /\ Len(task_history) < MaxHistory \/ EndsSession(resp)
    /\ LET fd == AnalyzeStateAndDecide(resp)
           tr == IF resp = "error"
                   THEN Append(trace, Ev("decision_failed", t, "-")) ELSE trace
       IN /\ full_decision' = [full_decision EXCEPT ![t] = fd]
          /\ IF GetRaises(fd)
               THEN Except(t, tr)
               ELSE /\ taskpc' = SetPc(t, "send_thought")
                    /\ trace' = tr
                    /\ UNCHANGED <<is_running, step_by_step, use_pro>>
    /\ UNCHANGED <<loopFrame, task_history, msg_queue, acked>>
    /\ UNCHANGED otherVars

Loop_Decided(t) == \E resp \in Responses : Decided(t, resp)

\* lines 118-147: log_step, then finish / fail / any other action type.
Loop_ThoughtSent(t) ==
    /\ At(t, "send_thought")
    /\ LET decision == Get(full_decision[t], "action", EmptyDict)
           action_type == Get(decision, "type", NoneV)
           step_idx == Len(task_history) + 1
           logged == LogStepData(report_data, current_report_dir, step_idx, full_decision[t])
           tr == Append(trace, Ev("logstep", t, "-"))
       IN CASE action_type = "finish" ->
                 /\ report_data' = EndSessionData(logged, "success")
                 /\ trace' = SendReportLink(Append(tr, Ev("EndSession", t, "success")), t)
                 /\ taskpc' = SetPc(t, "fin_report")
            [] action_type = "fail" ->
                 /\ report_data' = EndSessionData(logged, "failed")
                 /\ trace' = SendReportLink(Append(tr, Ev("EndSession", t, "failed")), t)
                 /\ taskpc' = SetPc(t, "fail_report")
            [] OTHER ->
                 /\ report_data' = logged
                 /\ trace' = tr
                 /\ taskpc' = SetPc(t, "send_exec")
    /\ report_json' = SaveReport(report_json, current_report_dir, report_data')
    /\ UNCHANGED <<orchVars, current_report_dir, page, cancel_req, step_by_step,
                   full_decision, use_pro, ctlVars, nstarts, acked>>
    /\ UNCHANGED otherVars

\* line 134
Loop_FinReported(t) ==
    /\ At(t, "fin_report")
    /\ taskpc' = SetPc(t, "fin_notify")
    /\ trace' = Append(trace, Ev("success", t, "-"))
    /\ UNCHANGED <<loopFrame, is_running, task_history, msg_queue, acked, step_by_step,
                   full_decision, use_pro>>
    /\ UNCHANGED otherVars

\* lines 135-136, then the finally clause
Loop_FinNotified(t) ==
    /\ At(t, "fin_notify")
    /\ Finally(t, trace)
    /\ UNCHANGED <<loopFrame, task_history, msg_queue, acked>>
    /\ UNCHANGED otherVars

\* line 141
Loop_FailReported(t) ==
    /\ At(t, "fail_report")
    /\ taskpc' = SetPc(t, "fail_notify")
    /\ trace' = Append(trace, Ev("error", t, "agent"))
    /\ UNCHANGED <<loopFrame, is_running, task_history, msg_queue, acked, step_by_step,
                   full_decision, use_pro>>
    /\ UNCHANGED otherVars

\* lines 142-143, then the finally clause
Loop_FailNotified(t) ==
    /\ At(t, "fail_notify")
    /\ Finally(t, trace)
    /\ UNCHANGED <<loopFrame, task_history, msg_queue, acked>>
    /\ UNCHANGED otherVars

\* line 154 (main.py 151): the selector argument of execute_action is the action's
\* "selector" field.
Selector(decision) == Get(decision, "selector", NoneV)

\* lines 146-155: the "Executing" log is out; call execute_action with the selector
\* of line 154.
Loop_ExecLogged(t) ==
    /\ At(t, "send_exec")
    /\ taskpc' = SetPc(t, "act")
    /\ trace' = Append(trace, Ev("execute", t,
                                 Selector(Get(full_decision[t], "action", EmptyDict))))
    /\ UNCHANGED <<loopFrame, is_running, task_history, msg_queue, acked, step_by_step,
                   full_decision, use_pro>>
    /\ UNCHANGED otherVars

\* lines 153-161: execute_action returns (append to the history, then the
\* post-action screenshot) or raises (line 173).
Loop_Acted(t) ==
    /\ At(t, "act")
    /\ LET decision == Get(full_decision[t], "action", EmptyDict)
           action_type == Get(decision, "type", NoneV)
           val == PyOr(PyOr(Get(decision, "value", NoneV), Get(decision, "url", NoneV)),
                       Get(decision, "key", NoneV))
           node_id == Get(decision, "nodeId", NoneV)
       IN \E drv \in Drivers :
            IF execute_action(action_type, Selector(decision), val, node_id,
                              page, drv).outcome = "raise"
              THEN /\ Except(t, Append(trace, Ev("execute_raised", t, "-")))
                   /\ UNCHANGED <<task_history, full_decision>>
              ELSE /\ task_history' = Append(task_history, full_decision[t])
                   /\ taskpc' = SetPc(t, "post_sense")
                   /\ trace' = Append(trace, Ev("append", t, action_type))
                   /\ UNCHANGED <<is_running, step_by_step, full_decision, use_pro>>
    /\ UNCHANGED <<loopFrame, msg_queue, acked>>
    /\ UNCHANGED otherVars

\* lines 160-164 with the test of line 163 left out: the next cycle follows at once.
Loop_PostSensed_NoPause(t) ==
    /\ At(t, "post_sense")
    /\ LoopTop(t, trace)
    /\ UNCHANGED <<loopFrame, task_history, msg_queue, acked>>
    /\ UNCHANGED otherVars

\* lines 160-164: the post-action screenshot and state notification are done (one
\* position); in step mode the pause notification, else the next cycle.
Loop_PostSensed(t) ==
    /\ At(t, "post_sense")
    /\ IF step_by_step[t]
         THEN /\ taskpc' = SetPc(t, "send_pause")
              /\ trace' = Append(trace, Ev("pause", t, "-"))
              /\ acked' = FALSE
              /\ UNCHANGED <<is_running, step_by_step, full_decision, use_pro>>
         ELSE /\ LoopTop(t, trace)
              /\ UNCHANGED acked
    /\ UNCHANGED <<loopFrame, task_history, msg_queue>>
    /\ UNCHANGED otherVars

\* lines 166-168 with a message at hand: "stop" breaks, anything else resumes the loop.
Consume(t) ==
    /\ msg_queue' = Tail(msg_queue)
    /\ acked' = FALSE
    /\ LET tr == Append(trace, Ev("consume", t, IF acked THEN "fresh" ELSE "stale"))
       IN IF Get(Head(msg_queue), "type", NoneV) = "stop"
            THEN Finally(t, tr)
            ELSE LoopTop(t, tr)
    /\ UNCHANGED <<loopFrame, task_history>>

\* line 166: msg_queue.get() returns at once when a message is queued, else blocks.
Loop_PauseSent(t) ==
    /\ At(t, "send_pause")
    /\ IF msg_queue # <<>>
         THEN Consume(t)
         ELSE /\ taskpc' = SetPc(t, "paused")
              /\ UNCHANGED <<loopFrame, is_running, task_history, msg_queue, acked,
                             step_by_step, full_decision, use_pro, trace>>
    /\ UNCHANGED otherVars

\* line 166: a message arrives for the blocked get().
Loop_Unpaused(t) ==
    /\ At(t, "paused")
    /\ msg_queue # <<>>
    /\ Consume(t)
    /\ UNCHANGED otherVars

\* line 176 done, then the finally clause
Loop_CriticalSent(t) ==
    /\ At(t, "send_critical")
    /\ Finally(t, trace)
    /\ UNCHANGED <<loopFrame, task_history, msg_queue, acked>>
    /\ UNCHANGED otherVars

\* line 181 done: the coroutine returns.
Loop_FinallyReported(t) ==
    /\ At(t, "finally_report")
    /\ Finished(t)
    /\ UNCHANGED <<orchVars, repVars, page, cancel_req, ctlVars, nstarts, trace, acked>>
    /\ UNCHANGED otherVars

\* Task.cancel() takes effect: CancelledError is thrown at the await the task is
\* suspended in.  A task that never ran is cancelled without running; inside the
\* try (or the except handler) the exception passes lines 170-172 and the finally
\* clause runs; inside the finally clause it ends the task.
Loop_Cancelled(t) ==
    /\ cancel_req[t]
    /\ taskpc[t] \notin {"none", "done"}
    /\ cancel_req' = [cancel_req EXCEPT ![t] = FALSE]
    /\ IF taskpc[t] \in {"new", "finally_report"}
         THEN /\ Finished(t)
              /\ UNCHANGED <<is_running, trace>>
         ELSE Finally(t, trace)
    /\ acked' = FALSE
    /\ UNCHANGED <<current_goal, task_history, active_task, msg_queue, repVars, page,
                   ctlVars, nstarts>>
    /\ UNCHANGED otherVars

\* ------------------------------------------------------ specification
Next ==
    \/ \E goal \in Goals, step \in BOOLEAN : Start(goal, step)
    \/ Start_BrowserUp
    \/ Start_Session
    \/ Start_Spawn
    \/ \E raw \in RawMsgs : ProcessMessage(raw)
    \/ Stop_Awaited
    \/ Stop_Logged
    \/ Stop_Return
    \/ \E t \in Sessions :
         \/ Loop_Enter(t)
         \/ Loop_Observed(t)
         \/ Loop_Decided(t)
         \/ Loop_ThoughtSent(t)
         \/ Loop_FinReported(t)
         \/ Loop_FinNotified(t)
         \/ Loop_FailReported(t)
         \/ Loop_FailNotified(t)
         \/ Loop_ExecLogged(t)
         \/ Loop_Acted(t)
         \/ Loop_PostSensed(t)
         \/ Loop_PauseSent(t)
         \/ Loop_Unpaused(t)
         \/ Loop_CriticalSent(t)
         \/ Loop_FinallyReported(t)
         \/ Loop_Cancelled(t)

Spec == Init /\ [][Next]_vars

\* ------------------------------------------------------ failures
\* start, line 38: browser_service.start() raises (playwright or the browser does
\* not come up).  start has no handler: the exception leaves start.
Start_BrowserFailed ==
    /\ ctlpc = "start_browser"
    /\ ctlpc' = "idle"
    /\ trace' = Append(Append(trace, Ev("browser_failed", None, "-")),
                       Ev("start_raised", None, "browser"))
    /\ UNCHANGED <<orchVars, repVars, page, taskVars, ctlret, ctlargs, nstarts, acked>>
    /\ UNCHANGED otherVars

\* The client goes away: from now on every send_json raises.
Disconnect ==
    /\ ws_open
    /\ ws_open' = FALSE
    /\ UNCHANGED <<orchVars, repVars, page, taskVars, ctlVars, nstarts, trace, acked,
                   endpoint, browserVars>>

\* start, lines 39 and 43: send_log raises on the closed websocket and the exception
\* leaves start.
Start_SendFailed ==
    /\ ctlpc \in {"start_log1", "start_log2"}
    /\ ~ws_open
    /\ ctlpc' = "idle"
    /\ trace' = Append(trace, Ev("start_raised", None, "send"))
    /\ UNCHANGED <<orchVars, repVars, page, taskVars, ctlret, ctlargs, nstarts, acked>>
    /\ UNCHANGED otherVars

\* stop, line 64: send_log raises on the closed websocket and the exception leaves
\* stop (into start, process_message's handler of line 79, or shutdown); lines 65-66
\* are not run.
Stop_SendFailed ==
    /\ ctlpc = "stop_log"
    /\ ~ws_open
    /\ ctlpc' = "idle"
    /\ ctlret' = "idle"
    /\ trace' = Append(trace, Ev("stop_raised", active_task, "-"))
    /\ UNCHANGED <<orchVars, repVars, page, taskVars, ctlargs, nstarts, acked>>
    /\ UNCHANGED otherVars

\* shutdown, lines 206-210, called when the connection is lost: stop("Connection
\* Lost") while is_running.
Shutdown ==
    /\ ctlpc = "idle"
    /\ ~ws_open
    /\ is_running
    /\ Count(trace, {"stop_called"}) < MaxStops
    /\ Stop_Enter("idle")
    /\ UNCHANGED <<current_goal, task_history, active_task, msg_queue, repVars, page, taskpc,
                   step_by_step, full_decision, use_pro, ctlargs, nstarts, acked>>
    /\ UNCHANGED otherVars

\* A send of the loop raises on the closed websocket.  Inside the try the exception
\* reaches line 173, where the send of line 176 raises as well; send_report_link
\* (lines 133, 140, 181) swallows its own, and the send after it raises.  Either
\* way the finally clause runs and the task ends.
Loop_SendFailed(t) ==
    /\ taskpc[t] \in SendPcs
    /\ ~cancel_req[t]
    /\ ~ws_open
    /\ is_running' = FALSE
    /\ Finished(t)
    /\ trace' = Append(trace, Ev("send_failed", t, taskpc[t]))
    /\ UNCHANGED <<loopFrame, task_history, msg_queue, acked>>
    /\ UNCHANGED otherVars

NextFaults ==
    \/ Next
    \/ Start_BrowserFailed
    \/ Disconnect
    \/ Start_SendFailed
    \/ Stop_SendFailed
    \/ Shutdown
    \/ \E t \in Sessions : Loop_SendFailed(t)

SpecFaults == Init /\ [][NextFaults]_vars

\* ------------------------------------------- the tier flag on any history
MaxTierHistory == 3   \* entries of the histories the tier flag is computed on

\* What a history can hold: decisions of the service by action type, the recovery
\* entry of main.py (fail_retry), and the dict analyze_state_and_decide returns on
\* an error, which has no "action" key.
HistoryEntries ==
    {[action |-> [type |-> ty]] : ty \in {"click", "press", "fail", "fail_retry"}}
       \cup {AnalyzeStateAndDecide("error")}

Histories == UNION {[1..n -> HistoryEntries] : n \in 0..MaxTierHistory}

\* A loop task that has observed (lines 87-94) and is about to compute the tier of
\* line 99, on any history.
InitTier ==
    /\ is_running = TRUE
    /\ current_goal = "g1"
    /\ task_history \in Histories
    /\ active_task = 1
    /\ msg_queue = <<>>
    /\ current_report_dir = 1
    /\ report_data = StartSessionData(1, "g1")
    /\ report_json = NoFile
    /\ page = TRUE
    /\ taskpc = [t \in Sessions |-> IF t = 1 THEN "observe" ELSE "none"]
    /\ cancel_req = [t \in Sessions |-> FALSE]
    /\ step_by_step = [t \in Sessions |-> FALSE]
    /\ full_decision = [t \in Sessions |-> EmptyDict]
    /\ use_pro = [t \in Sessions |-> FALSE]
    /\ ctlpc = "idle"
    /\ ctlret = "idle"
    /\ ctlargs = [goal |-> "g1", step |-> FALSE]
    /\ nstarts = 1
    /\ trace = <<Ev("observe", 1, "-")>>
    /\ acked = FALSE
    /\ ws_open = TRUE
    /\ endpoint = EndpointInit
    /\ ExecInit
    /\ AxInit
    /\ EventInit

NextTier == Loop_Observed(1)

SpecTier == InitTier /\ [][NextTier]_vars

\* ------------------------------------------- the loop on any decision payload
\* What the service may answer: the four responses above, a click that names its
\* target by "locator" (the field of the prompt's schema, agent_core.py:64), by
\* "selector", or by "nodeId", an action type outside the schema, an action without
\* a type, an object without "action", an "action" that is null, and JSON that is
\* not an object.
AllResponses ==
    Responses \cup {"click_locator", "click_selector", "click_node", "drag", "untyped",
                    "no_action", "null_action", "json_list"}

\* A session has been started (with or without step mode) and its loop task is in
\* its first Sense phase; no control message arrives.
InitLoop ==
    /\ is_running = TRUE
    /\ current_goal = "g1"
    /\ task_history = <<>>
    /\ active_task = 1
    /\ msg_queue = <<>>
    /\ current_report_dir = 1
    /\ report_data = StartSessionData(1, "g1")
    /\ report_json = NoFile
    /\ page = TRUE
    /\ taskpc = [t \in Sessions |-> IF t = 1 THEN "observe" ELSE "none"]
    /\ cancel_req = [t \in Sessions |-> FALSE]
    /\ step_by_step \in [Sessions -> BOOLEAN]
    /\ \A t \in Sessions : t # 1 => ~step_by_step[t]
    /\ full_decision = [t \in Sessions |-> EmptyDict]
    /\ use_pro = [t \in Sessions |-> FALSE]
    /\ ctlpc = "idle"
    /\ ctlret = "idle"
    /\ ctlargs = [goal |-> "g1", step |-> step_by_step[1]]
    /\ nstarts = 1
    /\ trace = <<Ev("observe", 1, "-")>>
    /\ acked = FALSE
    /\ ws_open = TRUE
    /\ endpoint = EndpointInit
    /\ ExecInit
    /\ AxInit
    /\ EventInit

Loop_DecidedAny(t) == \E resp \in AllResponses : Decided(t, resp)

NextLoop ==
    \/ Loop_Observed(1)
    \/ Loop_DecidedAny(1)
    \/ Loop_ThoughtSent(1)
    \/ Loop_FinReported(1)
    \/ Loop_FinNotified(1)
    \/ Loop_FailReported(1)
    \/ Loop_FailNotified(1)
    \/ Loop_ExecLogged(1)
    \/ Loop_Acted(1)
    \/ Loop_PostSensed(1)
    \/ Loop_PauseSent(1)
    \/ Loop_CriticalSent(1)
    \/ Loop_FinallyReported(1)

SpecLoop == InitLoop /\ [][NextLoop]_vars

\* ------------------------------------------- execute_action on any call
ActionTypes == {"click", "type", "hover", "scroll", "navigate", "press", "wait", NoneV}

\* The calls of execute_action: its arguments and what the driver does.
ExecCalls ==
    [action_type : ActionTypes, selector : {NoneV, "", "#go"}, value : {NoneV, "v"},
     node_id : {NoneV, "n1"}, drv : Drivers]

\* A call is about to be made, with or without a page.
InitExec ==
    /\ SessionInit
    /\ page \in BOOLEAN
    /\ exec_call \in ExecCalls
    /\ exec_result = NoCall
    /\ AxInit
    /\ EventInit

\* The call is made and comes back.
Execute ==
    /\ exec_result = NoCall
    /\ exec_result' = execute_action(exec_call.action_type, exec_call.selector,
                                      exec_call.value, exec_call.node_id, page,
                                      exec_call.drv)
    /\ UNCHANGED <<sessionVars, exec_call, axVars, eventVars>>

NextExec == Execute

SpecExec == InitExec /\ [][NextExec]_vars

\* ------------------------------------------- the browser event buffers
MaxEvents == 3        \* notifications delivered by the page
MaxCalls == 3         \* calls of get_and_clear_events

EventKinds == {"console", "pageerror", "requestfailed"}

\* One of the listeners of lines 35-37 runs: a console message goes to console_logs,
\* a page error or a failed request to network_errors.  The notification is known
\* by its number; `calls` is the number of get_and_clear_events calls made before
\* it and `at` the number of events the observer had seen before it.
Notify(kind) ==
    /\ page
    /\ Len(delivered) < MaxEvents
    /\ LET id == Len(delivered) + 1
       IN /\ delivered' = Append(delivered, [id |-> id, kind |-> kind,
                                              calls |-> Len(returned),
                                              at |-> Len(trace)])
          /\ IF kind = "console"
               THEN /\ console_logs' = Append(console_logs, id)
                    /\ UNCHANGED network_errors
               ELSE /\ network_errors' = Append(network_errors, id)
                    /\ UNCHANGED console_logs
    /\ UNCHANGED <<sessionVars, execVars, axVars, returned, events>>

\* get_and_clear_events without lines 255-256: the buffers are copied and kept.
GetAndClearEvents_NoClear ==
    /\ Len(returned) < MaxCalls
    /\ returned' = Append(returned, [console |-> console_logs, errors |-> network_errors])
    /\ UNCHANGED <<sessionVars, execVars, axVars, console_logs, network_errors, delivered,
                   events>>

\* BrowserService.get_and_clear_events, lines 249-257: a plain function with no
\* await, so no listener runs between the copies and the clears.
GetAndClearEvents ==
    /\ Len(returned) < MaxCalls
    /\ returned' = Append(returned, [console |-> console_logs, errors |-> network_errors])
    /\ console_logs' = <<>>
    /\ network_errors' = <<>>
    /\ UNCHANGED <<sessionVars, execVars, axVars, delivered, events>>

\* The browser has been started: the page exists and its listeners are registered.
InitEvents == SessionInit /\ page = TRUE /\ ExecInit /\ AxInit /\ EventInit

NextEvents ==
    \/ \E kind \in EventKinds : Notify(kind)
    \/ GetAndClearEvents

SpecEvents == InitEvents /\ [][NextEvents]_vars

\* ------------------------------------------- the events of a cycle, both loops
\* One of the two loops is in the Sense phase of its first cycle, with the page
\* up: the task of Orchestrator._run_loop (active_task = 1) or the inner loop of
\* main.websocket_endpoint (no task).  No control message arrives.
InitSense ==
    /\ ws_open = TRUE
    /\ active_task \in {None, 1}
    /\ is_running = (active_task = 1)
    /\ current_goal = (IF active_task = 1 THEN "g1" ELSE NoneV)
    /\ task_history = <<>>
    /\ msg_queue = <<>>
    /\ current_report_dir = (IF active_task = 1 THEN 1 ELSE None)
    /\ report_data = (IF active_task = 1 THEN StartSessionData(1, "g1") ELSE BlankReport)
    /\ report_json = NoFile
    /\ taskpc = [t \in Sessions |-> IF t = active_task THEN "sense" ELSE "none"]
    /\ endpoint = (IF active_task = 1 THEN EndpointInit
                   ELSE [EndpointInit EXCEPT !.pc = "sense", !.goal = "g1", !.received = 1])
    /\ cancel_req = [t \in Sessions |-> FALSE]
    /\ step_by_step = [t \in Sessions |-> FALSE]
    /\ full_decision = [t \in Sessions |-> EmptyDict]
    /\ use_pro = [t \in Sessions |-> FALSE]
    /\ ctlpc = "idle"
    /\ ctlret = "idle"
    /\ ctlargs = [goal |-> "g1", step |-> FALSE]
    /\ nstarts = (IF active_task = 1 THEN 1 ELSE 0)
    /\ trace = <<>>
    /\ acked = FALSE
    /\ page = TRUE
    /\ ExecInit
    /\ AxInit
    /\ EventInit

\* The position of the loop that runs.
Pos == IF active_task = 1 THEN taskpc[1] ELSE endpoint.pc

Goto(pc) ==
    IF active_task = 1
      THEN taskpc' = SetPc(1, pc) /\ UNCHANGED endpoint
      ELSE endpoint' = [endpoint EXCEPT !.pc = pc] /\ UNCHANGED taskpc

senseFrame ==
    <<is_running, current_goal, task_history, active_task, msg_queue, repVars, page,
      cancel_req, step_by_step, full_decision, use_pro, ctlVars, nstarts, acked, ws_open,
      execVars, axVars, delivered>>

\* orchestrator.py 87-91 (main.py 101-110): screenshot and snapshot are back;
\* events = get_and_clear_events(), and the state notification carries them.
Sense_Drained ==
    /\ Pos = "sense"
    /\ Len(returned) < MaxCalls
    /\ LET got == [console |-> console_logs, errors |-> network_errors]
       IN /\ returned' = Append(returned, got)
          /\ events' = got
          /\ trace' = Append(trace, Ev("state", active_task, got))
    /\ console_logs' = <<>>
    /\ network_errors' = <<>>
    /\ Goto("send_state")
    /\ UNCHANGED senseFrame

\* orchestrator.py 91-104 (main.py 105-121): the state notification and the
\* "Thinking..." log are out; analyze_state_and_decide is called with events=events.
Sense_DecisionCalled ==
    /\ Pos = "send_state"
    /\ trace' = Append(trace, Ev("decide", active_task, events))
    /\ Goto("decide")
    /\ UNCHANGED <<senseFrame, console_logs, network_errors, returned, events>>

\* orchestrator.py 106-155 (main.py 123-151): the decision is back: finish, fail or
\* an exception end the loop; any other action is passed to execute_action once
\* the thought and the "Executing" log are out.
Sense_Decided ==
    /\ Pos = "decide"
    /\ \E ends \in BOOLEAN :
         IF ends
           THEN Goto("ended") /\ UNCHANGED trace
           ELSE /\ Goto("act")
                /\ trace' = Append(trace, Ev("action_start", active_task, "-"))
    /\ UNCHANGED <<senseFrame, console_logs, network_errors, returned, events>>

\* execute_action is back.  It returned: the append, then the post-action
\* screenshot (orchestrator.py 157-160, main.py 153-156).  It raised: the loop of
\* the Orchestrator ends (173-181); the inner loop of main.py sends the "Action
\* Failed" notification, appends the fail_retry entry and goes to its top (177-188).
Sense_Acted ==
    /\ Pos = "act"
    /\ \E raised \in BOOLEAN :
         IF ~raised THEN Goto("post_sense")
         ELSE IF active_task = 1 THEN Goto("ended")
         ELSE Goto("sense")
    /\ UNCHANGED <<senseFrame, trace, console_logs, network_errors, returned, events>>

\* The post-action state notification that sends what is buffered without
\* emptying the buffers.
Sense_PostDrained_Kept ==
    /\ Pos = "post_sense"
    /\ Len(returned) < MaxCalls
    /\ LET got == [console |-> console_logs, errors |-> network_errors]
       IN /\ returned' = Append(returned, got)
          /\ trace' = Append(trace, Ev("post_state", active_task, got))
    /\ Goto("sense")
    /\ UNCHANGED <<senseFrame, console_logs, network_errors, events>>

\* orchestrator.py 160-161 (main.py 156-161): the post-action screenshot is back;
\* get_and_clear_events() is the argument of the state notification and is not
\* assigned to `events`.  After the send (and, in step mode, the pause) the next
\* cycle begins.
Sense_PostDrained ==
    /\ Pos = "post_sense"
    /\ Len(returned) < MaxCalls
    /\ LET got == [console |-> console_logs, errors |-> network_errors]
       IN /\ returned' = Append(returned, got)
          /\ trace' = Append(trace, Ev("post_state", active_task, got))
    /\ console_logs' = <<>>
    /\ network_errors' = <<>>
    /\ Goto("sense")
    /\ UNCHANGED <<senseFrame, events>>

NextSense ==
    \/ \E kind \in EventKinds : Notify(kind)
    \/ Sense_Drained
    \/ Sense_DecisionCalled
    \/ Sense_Decided
    \/ Sense_Acted
    \/ Sense_PostDrained

SpecSense == InitSense /\ [][NextSense]_vars

\* ------------------------------------------- the accessibility filter
MaxRawLen == 2        \* nodes of the raw lists enumerated in full

NodeCap == 200        \* line 244: simplified[:200]
NameCap == 100        \* line 239: name[:100]

\* line 220
interactive_roles ==
    {"button", "link", "textbox", "checkbox", "combobox", "listbox", "searchbox",
     "menuitem", "menu", "tab"}

\* A name of n characters.
Chars(n) == [i \in 1..n |-> "x"]

\* The fields a raw node may carry: a role, a name (of 0, 3 or 4 characters), an
\* ignored flag; each may be absent.
RoleParts ==
    {EmptyDict} \cup {[role |-> [value |-> r]] : r \in {"button", "statictext", "image",
                                                         "heading"}}

NameParts == {EmptyDict} \cup {[name |-> [value |-> Chars(n)]] : n \in {0, 3, 4}}

IgnoredParts == {EmptyDict, [ignored |-> TRUE], [ignored |-> FALSE]}

Shapes == {r @@ n @@ g : r \in RoleParts, n \in NameParts, g \in IgnoredParts}

\* A raw list: the node at position i has nodeId i.
WithIds(l) == [i \in 1..Len(l) |-> l[i] @@ [nodeId |-> i, backendDOMNodeId |-> i]]

ShortLists == {WithIds(l) : l \in UNION {[1..n -> Shapes] : n \in 0..MaxRawLen}}

\* Long raw lists, around and beyond the cap: a short pattern of nodes repeated.
Patterns ==
    LET button == [role |-> [value |-> "button"], name |-> [value |-> Chars(NameCap + 1)]]
        link == [role |-> [value |-> "link"]]
        div == [role |-> [value |-> "generic"], name |-> [value |-> Chars(0)]]
        hidden == [role |-> [value |-> "button"], ignored |-> TRUE]
        text == [role |-> [value |-> "statictext"], name |-> [value |-> Chars(4)]]
    IN {<<button>>, <<button, div>>, <<div, link>>, <<hidden, text, div>>,
        <<text, hidden, button, link>>}

LongLists ==
    {WithIds([i \in 1..n |-> p[((i - 1) % Len(p)) + 1]]) :
        n \in {NodeCap - 1, NodeCap, NodeCap + 1, 2 * NodeCap + 1}, p \in Patterns}

\* A button "Submit", a div with an empty name and a statictext "ab".
ExampleList ==
    WithIds(<<[role |-> [value |-> "button"], name |-> [value |-> Chars(6)]],
              [role |-> [value |-> "generic"], name |-> [value |-> Chars(0)]],
              [role |-> [value |-> "statictext"], name |-> [value |-> Chars(2)]]>>)

\* line 223: n.get("role", {}).get("value")
RoleOf(n) == Get(Get(n, "role", EmptyDict), "value", NoneV)

\* line 224: n.get("name", {}).get("value") or ""
NameOf(n) ==
    IF "name" \in DOMAIN n /\ "value" \in DOMAIN n.name THEN n.name.value ELSE <<>>

\* line 231 with `len(name) > 0` in the statictext clause.
Matches_ShortText(n) ==
    \/ RoleOf(n) \in interactive_roles
    \/ RoleOf(n) = "statictext" /\ Len(NameOf(n)) > 0
    \/ RoleOf(n) = "image" /\ Len(NameOf(n)) > 0

\* line 231
Matches(n) ==
    \/ RoleOf(n) \in interactive_roles
    \/ RoleOf(n) = "statictext" /\ Len(NameOf(n)) > 3
    \/ RoleOf(n) = "image" /\ Len(NameOf(n)) > 0

\* line 233: n.get("ignored")
Ignored(n) == Get(n, "ignored", FALSE)

\* seq[:n]
Slice(seq, n) == SubSeq(seq, 1, IF Len(seq) < n THEN Len(seq) ELSE n)

\* lines 236-241
SimplifiedNode(n) ==
    [nodeId |-> n.nodeId, role |-> RoleOf(n), name |-> Slice(NameOf(n), NameCap),
     backendDOMNodeId |-> n.backendDOMNodeId]

\* lines 222-241: what the loop appends for the raw nodes at positions lo..hi, in
\* order.  The range is split in halves, which appends the same entries in the same
\* order as going through it one by one.
RECURSIVE Simplify(_, _, _)
Simplify(raw, lo, hi) ==
    IF lo > hi THEN <<>>
    ELSE IF lo = hi
      THEN IF Matches(raw[lo]) /\ ~Ignored(raw[lo])
             THEN <<SimplifiedNode(raw[lo])>>
             ELSE <<>>
    ELSE LET mid == (lo + hi) \div 2
         IN Simplify(raw, lo, mid) \o Simplify(raw, mid + 1, hi)

\* line 244 taking the last 200 instead of the first.
Capped_Last(simplified) ==
    SubSeq(simplified, IF Len(simplified) > NodeCap THEN Len(simplified) - NodeCap + 1 ELSE 1,
           Len(simplified))

\* line 244: simplified[:200]
Capped(simplified) == Slice(simplified, NodeCap)

\* get_accessibility_snapshot, lines 216-244, on a raw tree that was fetched.
get_accessibility_snapshot(raw) == [nodes |-> Capped(Simplify(raw, 1, Len(raw)))]

\* The raw tree has been fetched (line 215).
InitAx ==
    /\ SessionInit
    /\ page = TRUE
    /\ ExecInit
    /\ EventInit
    /\ nodes \in ShortLists \cup LongLists \cup {ExampleList}
    /\ snapshot = NoCall

\* The filter runs and the snapshot is returned.
Snapshot ==
    /\ snapshot = NoCall
    /\ snapshot' = get_accessibility_snapshot(nodes)
    /\ UNCHANGED <<sessionVars, execVars, nodes, eventVars>>

NextAx == Snapshot

SpecAx == InitAx /\ [][NextAx]_vars

\* ------------------------------------------- main.websocket_endpoint
MaxInbox == 2         \* texts waiting in the endpoint's msg_queue
MaxTexts == 2         \* texts the client sends over the connection

\* The texts a client can send: a goal (with or without step mode), the control
\* messages, an object of another kind, JSON that is not an object, and text that
\* is not JSON.
ClientTexts == {"goal", "goal_step"} \cup RawMsgs

\* The endpoint is past line 82 and inside its inner loop.
Active == endpoint.pc \notin {"browser_start", "send_ready", "wait_goal", "closed"}

\* lines 68-80: what the idle endpoint makes of a text.  A text that json.loads
\* rejects, or whose value has no .get, is taken as the goal itself (bare except,
\* lines 76-78); stop and next_step objects and objects without a goal are skipped.
ParseGoal(init_data) ==
    LET msg_json == JsonLoads(init_data)
    IN IF "raises" \in DOMAIN msg_json \/ ~IsDict(msg_json)
         THEN [goal |-> init_data, step_by_step |-> FALSE]
       ELSE IF Get(msg_json, "type", NoneV) \in {"stop", "next_step"}
         THEN [skip |-> TRUE]
       ELSE IF ~Truthy(Get(msg_json, "goal", NoneV))
         THEN [skip |-> TRUE]
       ELSE [goal |-> msg_json.goal, step_by_step |-> Get(msg_json, "step_by_step", FALSE)]

\* lines 88-97: get_nowait until the queue is empty or a stop is read; any other
\* text, and any text that raises, is passed over.
RECURSIVE Drain(_)
Drain(q) ==
    IF q = <<>> THEN [stop |-> FALSE, rest |-> <<>>]
    ELSE IF MsgType(Head(q)) = "stop" THEN [stop |-> TRUE, rest |-> Tail(q)]
    ELSE Drain(Tail(q))

\* The top of the inner loop with a queued goal taken up: the history is emptied.
MainLoopTop_Restarts(ep, q, tr) ==
    LET d == Drain(q)
        fresh == IF \E i \in DOMAIN q : q[i] \in {"goal", "goal_step"}
                   THEN [ep EXCEPT !.history = <<>>] ELSE ep
    IN /\ msg_queue' = d.rest
       /\ IF d.stop
            THEN /\ endpoint' = [fresh EXCEPT !.pc = "send_interrupted"]
                 /\ trace' = Append(tr, Ev("log", None, "Interrupted"))
            ELSE /\ endpoint' = [fresh EXCEPT !.pc = "sense"]
                 /\ trace' = Append(tr, Ev("observe", None, "-"))

\* lines 86-101, the top of the inner loop for the endpoint locals ep, the queue q
\* and the record tr: the drain, then the "Execution Interrupted." log (line 93)
\* or the first await of the Sense phase (line 101).
MainLoopTop(ep, q, tr) ==
    LET d == Drain(q)
    IN /\ msg_queue' = d.rest
       /\ IF d.stop
            THEN /\ endpoint' = [ep EXCEPT !.pc = "send_interrupted"]
                 /\ trace' = Append(tr, Ev("log", None, "Interrupted"))
            ELSE /\ endpoint' = [ep EXCEPT !.pc = "sense"]
                 /\ trace' = Append(tr, Ev("observe", None, "-"))

mainFrame ==
    <<is_running, current_goal, task_history, active_task, repVars, taskVars, ctlVars,
      nstarts, acked, ws_open, browserVars>>

AtMain(pc) == endpoint.pc = pc

\* receiver, lines 46-50: a text arrives and is put on the queue, whatever the
\* endpoint is doing.  A stop that arrives inside the inner loop is noted in the
\* record with the position the endpoint is at; a goal message (a text the idle
\* endpoint would start a session from) that arrives there is noted in late.
Receive(raw) ==
    /\ endpoint.pc # "closed"
    /\ Len(msg_queue) < MaxInbox
    /\ endpoint.received < MaxTexts
    /\ msg_queue' = Append(msg_queue, raw)
    /\ endpoint' = [endpoint EXCEPT
                       !.received = @ + 1,
                       !.late = IF Active /\ "goal" \in DOMAIN ParseGoal(raw)
                                THEN @ \cup {endpoint.received + 1} ELSE @]
    /\ trace' = IF Active /\ raw = "stop"
                THEN Append(trace, Ev("received", None, endpoint.pc)) ELSE trace
    /\ UNCHANGED <<mainFrame, page>>

\* lines 57-58: the browser is up; send the first log.
Main_BrowserUp ==
    /\ AtMain("browser_start")
    /\ page' = TRUE
    /\ endpoint' = [endpoint EXCEPT !.pc = "send_ready"]
    /\ trace' = Append(trace, Ev("log", None, "ready"))
    /\ UNCHANGED <<mainFrame, msg_queue>>

\* line 57 raises: `except Exception` (192-193) prints, the finally clause cancels
\* the receiver and stops the browser; nothing is sent.
Main_BrowserFailed ==
    /\ AtMain("browser_start")
    /\ endpoint' = [endpoint EXCEPT !.pc = "closed"]
    /\ UNCHANGED <<mainFrame, msg_queue, page, trace>>

\* line 58 done; wait for a goal (line 65).
Main_Ready ==
    /\ AtMain("send_ready")
    /\ endpoint' = [endpoint EXCEPT !.pc = "wait_goal"]
    /\ UNCHANGED <<mainFrame, msg_queue, page, trace>>

\* lines 65-82: a text is taken from the queue; the history is reset (line 67); a
\* skipped text leaves the endpoint waiting, else the goal log is sent.
Main_GetGoal ==
    /\ AtMain("wait_goal")
    /\ msg_queue # <<>>
    /\ msg_queue' = Tail(msg_queue)
    /\ LET parsed == ParseGoal(Head(msg_queue))
       IN IF "skip" \in DOMAIN parsed
            THEN /\ endpoint' = [endpoint EXCEPT !.history = <<>>]
                 /\ UNCHANGED trace
            ELSE /\ endpoint' = [endpoint EXCEPT
                                   !.pc = "send_goal", !.goal = parsed.goal,
                                   !.step_by_step = parsed.step_by_step, !.history = <<>>]
                 /\ trace' = <<Ev("log", None, "goal")>>
    /\ UNCHANGED <<mainFrame, page>>

\* line 82 done: enter the inner loop.
Main_GoalLogged ==
    /\ AtMain("send_goal")
    /\ MainLoopTop(endpoint, msg_queue, trace)
    /\ UNCHANGED <<mainFrame, page>>

\* lines 93-98 and 62-65: the log is out, active = False, both breaks; wait for a goal.
Main_Interrupted ==
    /\ AtMain("send_interrupted")
    /\ endpoint' = [endpoint EXCEPT !.pc = "wait_goal"]
    /\ UNCHANGED <<mainFrame, msg_queue, page, trace>>

\* lines 101-115: screenshot, snapshot and state notification are done (one
\* position); with a text in the queue `continue` (line 112), else the
\* "Thinking..." log.
Main_Sensed ==
    /\ AtMain("sense")
    /\ IF msg_queue # <<>>
         THEN MainLoopTop(endpoint, msg_queue, trace)
         ELSE /\ endpoint' = [endpoint EXCEPT !.pc = "send_thinking"]
              /\ UNCHANGED <<msg_queue, trace>>
    /\ UNCHANGED <<mainFrame, page>>

\* lines 115-119: the log is out; the tier of line 116 and the call of the service.
Main_ThinkingSent ==
    /\ AtMain("send_thinking")
    /\ endpoint' = [endpoint EXCEPT !.pc = "decide"]
    /\ trace' = Append(trace, Ev("decide", None,
                                 IF UsePro(endpoint.history) THEN "pro" ELSE "flash"))
    /\ UNCHANGED <<mainFrame, msg_queue, page>>

\* lines 119-134: the decision is back; a value without .get raises inside the try
\* and the "AI Error" notification is sent, else the plan log and the thought.
MainDecided(resp) ==
    /\ AtMain("decide")
    /\ Len(endpoint.history) < MaxHistory \/ EndsSession(resp)
    /\ LET fd == AnalyzeStateAndDecide(resp)
       IN IF GetRaises(fd)
            THEN /\ endpoint' = [endpoint EXCEPT !.pc = "send_ended"]
                 /\ trace' = Append(trace, Ev("error", None, "ai"))
            ELSE /\ endpoint' = [endpoint EXCEPT !.pc = "send_thought",
                                                  !.full_decision = fd]
                 /\ UNCHANGED trace
    /\ UNCHANGED <<mainFrame, msg_queue, page>>

Main_Decided == \E resp \in Responses : MainDecided(resp)

\* lines 138-147: finish and fail send their notification (active = False), any
\* other action type sends the "Executing" log.
Main_ThoughtSent ==
    /\ AtMain("send_thought")
    /\ LET decision == Get(endpoint.full_decision, "action", EmptyDict)
           action_type == Get(decision, "type", NoneV)
       IN CASE action_type = "finish" ->
                 /\ endpoint' = [endpoint EXCEPT !.pc = "send_ended"]
                 /\ trace' = Append(trace, Ev("success", None, "-"))
            [] action_type = "fail" ->
                 /\ endpoint' = [endpoint EXCEPT !.pc = "send_ended"]
                 /\ trace' = Append(trace, Ev("error", None, "agent"))
            [] OTHER ->
                 /\ endpoint' = [endpoint EXCEPT !.pc = "send_exec"]
                 /\ UNCHANGED trace
    /\ UNCHANGED <<mainFrame, msg_queue, page>>

\* line 134 then break, or line 140 / 143 then `while active` (86): the inner loop
\* is left; wait for a goal.
Main_Ended ==
    /\ AtMain("send_ended")
    /\ endpoint' = [endpoint EXCEPT !.pc = "wait_goal"]
    /\ UNCHANGED <<mainFrame, msg_queue, page, trace>>

\* lines 147-151: the log is out; call execute_action.
Main_ExecLogged ==
    /\ AtMain("send_exec")
    /\ endpoint' = [endpoint EXCEPT !.pc = "act"]
    /\ trace' = Append(trace, Ev("execute", None,
                                 Selector(Get(endpoint.full_decision, "action", EmptyDict))))
    /\ UNCHANGED <<mainFrame, msg_queue, page>>

\* lines 149-157 and 177-179: execute_action returns (append, then the post-action
\* screenshot) or raises (the "Action Failed" notification).
Main_Acted ==
    /\ AtMain("act")
    /\ LET decision == Get(endpoint.full_decision, "action", EmptyDict)
           action_type == Get(decision, "type", NoneV)
           val == PyOr(PyOr(Get(decision, "value", NoneV), Get(decision, "url", NoneV)),
                       Get(decision, "key", NoneV))
           node_id == Get(decision, "nodeId", NoneV)
       IN \E drv \in Drivers :
            IF execute_action(action_type, Selector(decision), val, node_id,
                              page, drv).outcome = "raise"
              THEN /\ endpoint' = [endpoint EXCEPT !.pc = "send_action_failed"]
                   /\ trace' = Append(trace, Ev("error", None, "action"))
              ELSE /\ endpoint' = [endpoint EXCEPT
                                     !.pc = "post_sense",
                                     !.history = Append(@, endpoint.full_decision)]
                   /\ trace' = Append(trace, Ev("append", None, action_type))
    /\ UNCHANGED <<mainFrame, msg_queue, page>>

\* lines 156-164: the post-action state notification is out; in step mode the
\* pause notification, else the next turn of the inner loop.
Main_PostSensed ==
    /\ AtMain("post_sense")
    /\ IF endpoint.step_by_step
         THEN /\ endpoint' = [endpoint EXCEPT !.pc = "paused"]
              /\ trace' = Append(trace, Ev("pause", None, "-"))
              /\ UNCHANGED msg_queue
         ELSE MainLoopTop(endpoint, msg_queue, trace)
    /\ UNCHANGED <<mainFrame, page>>

\* lines 166-176: a text is read while paused: next_step resumes, stop leaves the
\* inner loop (active = False, nothing is sent), any other text is passed over.
Main_Unpaused ==
    /\ AtMain("paused")
    /\ msg_queue # <<>>
    /\ CASE MsgType(Head(msg_queue)) = "next_step" ->
              MainLoopTop(endpoint, Tail(msg_queue), trace)
         [] MsgType(Head(msg_queue)) = "stop" ->
              /\ endpoint' = [endpoint EXCEPT !.pc = "wait_goal"]
              /\ msg_queue' = Tail(msg_queue)
              /\ UNCHANGED trace
         [] OTHER ->
              /\ msg_queue' = Tail(msg_queue)
              /\ UNCHANGED <<endpoint, trace>>
    /\ UNCHANGED <<mainFrame, page>>

\* lines 179-188 with the entry typed "fail" instead of "fail_retry".
Main_ActionFailedSent_Fail ==
    /\ AtMain("send_action_failed")
    /\ LET error_step ==
             [plan |-> Get(endpoint.full_decision, "plan", NoneV), thought |-> "retry",
              action |-> [type |-> "fail", error |-> "e"]]
       IN MainLoopTop([endpoint EXCEPT !.history = Append(@, error_step)], msg_queue,
                      Append(trace, Ev("append", None, "fail")))
    /\ UNCHANGED <<mainFrame, page>>

\* lines 179-188: the notification is out; the fail_retry entry is appended, and
\* after the sleep the inner loop goes on.
Main_ActionFailedSent ==
    /\ AtMain("send_action_failed")
    /\ LET error_step ==
             [plan |-> Get(endpoint.full_decision, "plan", NoneV), thought |-> "retry",
              action |-> [type |-> "fail_retry", error |-> "e"]]
       IN MainLoopTop([endpoint EXCEPT !.history = Append(@, error_step)], msg_queue,
                      Append(trace, Ev("append", None, "fail_retry")))
    /\ UNCHANGED <<mainFrame, page>>

InitMain == SessionInit /\ BrowserInit

NextMain ==
    \/ \E raw \in ClientTexts : Receive(raw)
    \/ Main_BrowserUp
    \/ Main_BrowserFailed
    \/ Main_Ready
    \/ Main_GetGoal
    \/ Main_GoalLogged
    \/ Main_Interrupted
    \/ Main_Sensed
    \/ Main_ThinkingSent
    \/ Main_Decided
    \/ Main_ThoughtSent
    \/ Main_Ended
    \/ Main_ExecLogged
    \/ Main_Acted
    \/ Main_PostSensed
    \/ Main_Unpaused
    \/ Main_ActionFailedSent

SpecMain == InitMain /\ [][NextMain]_vars

\* ------------------------------------------- both loops on any decision payload
\* The endpoint has accepted a goal (no step mode) and is in the first Sense phase
\* of its inner loop; no text arrives.
InitMainLoop ==
    /\ ws_open = TRUE
    /\ endpoint = [EndpointInit EXCEPT !.pc = "sense", !.goal = "g1", !.received = 1]
    /\ is_running = FALSE
    /\ current_goal = NoneV
    /\ task_history = <<>>
    /\ active_task = None
    /\ msg_queue = <<>>
    /\ current_report_dir = None
    /\ report_data = BlankReport
    /\ report_json = NoFile
    /\ taskpc = [t \in Sessions |-> "none"]
    /\ cancel_req = [t \in Sessions |-> FALSE]
    /\ step_by_step = [t \in Sessions |-> FALSE]
    /\ full_decision = [t \in Sessions |-> EmptyDict]
    /\ use_pro = [t \in Sessions |-> FALSE]
    /\ ctlpc = "idle"
    /\ ctlret = "idle"
    /\ ctlargs = [goal |-> NoneV, step |-> FALSE]
    /\ nstarts = 0
    /\ trace = <<Ev("log", None, "goal"), Ev("observe", None, "-")>>
    /\ acked = FALSE
    /\ page = TRUE
    /\ ExecInit
    /\ AxInit
    /\ EventInit

Main_DecidedAny == \E resp \in AllResponses : MainDecided(resp)

\* One of the two loops runs: the task of Orchestrator._run_loop or the inner loop
\* of main.websocket_endpoint.
InitLoops == InitLoop \/ InitMainLoop

NextLoops ==
    \/ NextLoop
    \/ Main_Sensed
    \/ Main_ThinkingSent
    \/ Main_DecidedAny
    \/ Main_ThoughtSent
    \/ Main_Ended
    \/ Main_ExecLogged
    \/ Main_Acted
    \/ Main_PostSensed
    \/ Main_ActionFailedSent

SpecLoops == InitLoops /\ [][NextLoops]_vars

\* ------------------------------------------------------ properties
Last(seq) == seq[Len(seq)]

\* The positions of the events of the given kinds.
Where(kinds) == {i \in DOMAIN trace : trace[i].kind \in kinds}

\* The operations of a loop cycle.
LoopOps == {"observe", "decide", "execute", "append", "logstep"}

\* stop has just returned, and it was called with the loop in one of `phases`.
StopReturnedFrom(phases) ==
    /\ trace # <<>>
    /\ Last(trace).kind = "stop_returned"
    /\ \E i \in Where({"stop_called"}) :
         /\ trace[i].arg \in phases
         /\ \A k \in Where({"stop_called"}) : k <= i

\* C1: when Stop is processed while the loop awaits the decision service, then by
\* the time stop returns the session's recorded status is "stopped", EndSession has
\* been called exactly once (with "stopped") and exactly one report{url}
\* notification has been sent for the session.
C1_StopDuringDecide ==
    StopReturnedFrom({"decide"}) =>
        /\ report_json.status = "stopped"
        /\ Cardinality(Where({"EndSession"})) = 1
        /\ \A i \in Where({"EndSession"}) : trace[i].arg = "stopped"
        /\ Cardinality(Where({"report"})) = 1

\* The session of the current report directory is over: its loop task is done and
\* no control call is in progress.
SessionOver ==
    /\ current_report_dir # None
    /\ taskpc[current_report_dir] = "done"
    /\ ctlpc = "idle"

\* C2: however the loop of a session ends, EndSession is called exactly once for the
\* session, and that call precedes the session's last report{url} notification.
C2_EndSessionOnce ==
    SessionOver =>
        /\ Cardinality(Where({"EndSession"})) = 1
        /\ \A i \in Where({"EndSession"}) : \E j \in Where({"report"}) : i < j

\* C3: once stop is past its await of the loop task, and ever after it has
\* returned, the loop task it stopped is done and performs no further Observe,
\* decision call, action execution, history append or LogStep.
C3_LoopExitedWhenStopReturns ==
    /\ (ctlpc \in {"stop_log", "stop_report"} /\ active_task # None)
          => taskpc[active_task] = "done"
    /\ \A i \in Where({"stop_returned"}) :
          trace[i].task # None =>
             /\ taskpc[trace[i].task] = "done"
             /\ \A j \in Where(LoopOps) : j > i => trace[j].task # trace[i].task

\* C3 witness: stop was called with the loop in its Act phase and has returned.
C3_Witness == StopReturnedFrom({"act"})

\* A task that is inside the loop body or about to enter it: anything but the
\* last await of the finally clause.
InLoop(t) == taskpc[t] \notin {"none", "finally_report", "done"}

\* C4: at most one loop task is inside the loop at any time, and while start is
\* past its stop of a running session (lines 33-46) no loop task is inside the loop:
\* the prior loop has exited before the new one is spawned.
C4_SingleLoop ==
    /\ Cardinality({t \in Sessions : InLoop(t)}) <= 1
    /\ ctlpc \in {"start_browser", "start_log1", "start_log2"}
          => \A t \in Sessions : ~InLoop(t)

\* C4 witness: Start was issued while the loop was in its Act phase; the stop has
\* returned and start goes on to spawn the new loop.
C4_Witness == ctlpc = "start_browser" /\ StopReturnedFrom({"act"})

\* C5: when the decision service call fails, the loop runs no action for it and no
\* further cycle, and the session ends Failed with an error notification carrying
\* the reason.
C5_DecisionFailureEndsSession ==
    \A i \in Where({"decision_failed"}) :
       /\ \A j \in Where({"observe", "decide", "execute", "append"}) :
             j > i => trace[j].task # trace[i].task
       /\ (taskpc[trace[i].task] = "done" /\ Where({"stop_called"}) = {})
             => /\ report_json.status = "failed"
                /\ \E j \in Where({"error"}) : j > i /\ trace[j].arg = "agent"

\* C6: an exception raised by execute_action does not end the session: the next
\* thing the loop does is append a fail_retry entry to the history (and, after the
\* backoff, observe again).
C6_ActionErrorRetried ==
    \A i \in Where({"execute_raised"}) :
       /\ i < Len(trace)
       /\ trace[i + 1] = Ev("append", trace[i].task, "fail_retry")

\* The cycle events of loop task t, in order.
CycleEvents(t) ==
    LET Mine(e) == e.task = t /\ e.kind \in {"observe", "decide", "execute", "append",
                                               "pause", "consume"}
    IN SelectSeq(trace, Mine)

\* C7: in step mode every mutating action is followed by a pause notification, the
\* loop then does nothing until it has consumed a message from the control queue,
\* and having consumed it the loop resumes at Observe.
C7_StepModePause ==
    \A t \in Sessions :
       step_by_step[t] =>
          LET ev == CycleEvents(t) IN
          /\ \A i \in 1..(Len(ev) - 1) :
                /\ ev[i].kind = "append" => ev[i + 1].kind = "pause"
                /\ ev[i].kind = "pause" => ev[i + 1].kind = "consume"
                /\ ev[i].kind = "consume" => ev[i + 1].kind = "observe"
          /\ (ev # <<>> /\ Last(ev).kind = "append") => taskpc[t] = "post_sense"
          /\ (ev # <<>> /\ Last(ev).kind = "pause") => Paused(t)
          /\ (ev # <<>>) => Last(ev).kind # "consume"

\* C7 witness: a step-mode loop has paused, consumed a next_step and is in the
\* Decide phase of its next cycle.
C7_Witness ==
    \E t \in Sessions :
       /\ step_by_step[t]
       /\ taskpc[t] = "decide"
       /\ \E i \in Where({"consume"}) : trace[i].task = t

\* C8: a Stop processed while the loop is at the pause checkpoint ends the session
\* with status "stopped", and the loop never observes again.
C8_StopWhilePaused ==
    \A i \in Where({"stop_called"}) :
       trace[i].arg \in PausedPcs =>
          /\ \A j \in Where({"observe"}) : j > i => trace[j].task # trace[i].task
          /\ (\E j \in Where({"stop_returned"}) : j > i)
                => /\ report_json.status = "stopped"
                   /\ taskpc[trace[i].task] = "done"

\* C8 witness: stop was called with the loop blocked in msg_queue.get() and has returned.
C8_Witness == StopReturnedFrom({"paused"})

\* C9: a next_step received while no loop is at the pause checkpoint is not retained
\* in the queue, and no pause checkpoint is released by a message other than a
\* next_step received while the loop was at that checkpoint.
C9_NextStepNoOpUnlessPaused ==
    [][/\ Len(msg_queue') > Len(msg_queue) => \E t \in Sessions : Paused(t)
       /\ Len(msg_queue') < Len(msg_queue) => acked]_vars

\* C10: after a Stop has completed, a further Stop (with no Start in between) leaves
\* the status "stopped" and makes no further EndSession call and sends no further
\* report{url} notification.
C10_StopIdempotent ==
    current_report_dir # None =>
       \A i \in Where({"stop_returned"}) :
          /\ report_json.status = "stopped"
          /\ \A j \in Where({"EndSession", "report"}) : j < i

\* C11: once EndSession has recorded "success" or "failed" for a session, the status
\* in the session's report stays that value whatever Stop or NextStep messages
\* arrive afterwards.
C11_TerminalFinal ==
    \A i \in Where({"EndSession"}) :
       trace[i].arg \in {"success", "failed"} => report_json.status = trace[i].arg

\* C12: a session whose loop has ended by a finish or a fail decision, with no Stop
\* involved, has sent exactly one report{url} notification.
C12_OneReportOnFinish ==
    (/\ SessionOver
     /\ Where({"stop_called"}) = {}
     /\ \E i \in Where({"EndSession"}) : trace[i].arg \in {"success", "failed"})
       => Cardinality(Where({"report"})) = 1

\* The action type of the last entry of the history is "fail".
LastActionIsFail ==
    /\ task_history # <<>>
    /\ "action" \in DOMAIN Last(task_history)
    /\ "type" \in DOMAIN Last(task_history).action
    /\ Last(task_history).action.type = "fail"

\* C13: for every history, the tier flag the loop computes and passes to the decision
\* service is true exactly when the history is empty or the action type of its last
\* entry is "fail".
C13_TierFlag ==
    taskpc[1] = "decide" =>
       /\ use_pro[1] <=> (task_history = <<>> \/ LastActionIsFail)
       /\ Last(trace).kind = "decide"
       /\ Last(trace).arg = "pro" <=> (task_history = <<>> \/ LastActionIsFail)

\* C13 witness: the flag has been computed false on a history whose last entry is a
\* fail_retry.
C13_Witness ==
    /\ taskpc[1] = "decide"
    /\ task_history # <<>>
    /\ Last(task_history) = [action |-> [type |-> "fail_retry"]]
    /\ ~use_pro[1]

\* The call made has come back (returned or raised).
Executed == exec_result # NoCall

\* Tier 1 performed its act, and the idle wait after it timed out.
Tier1ActedIdleTimeout ==
    /\ Executed
    /\ page
    /\ exec_call.node_id \notin {NoneV, ""}
    /\ exec_call.action_type \in {"click", "type", "hover"}
    /\ exec_call.action_type = "type" => exec_call.value # NoneV
    /\ exec_call.drv.resolve = "found"
    /\ exec_call.drv.t1act = "ok"
    /\ exec_call.drv.t1idle = "timeout"

\* C14: when tier 1 has performed the act and the idle wait after it times out,
\* execute_action returns, enters no later tier and performs the interaction once.
C14_IdleTimeoutIsSuccess ==
    Tier1ActedIdleTimeout =>
       /\ exec_result.outcome = "return"
       /\ exec_result.tried = <<1>>
       /\ Len(exec_result.did) = 1

\* C15: with an active page execute_action never raises, whatever the action kind
\* and whatever fails in the driver.
C15_NeverRaisesWithPage ==
    (Executed /\ page) => exec_result.outcome = "return"

\* A click with a node id that does not resolve (node absent, no box model, or the
\* protocol call raising) and no selector, on an active page.
UnresolvedClick ==
    /\ Executed
    /\ page
    /\ exec_call.action_type = "click"
    /\ exec_call.node_id \notin {NoneV, ""}
    /\ exec_call.drv.resolve # "found"
    /\ exec_call.selector \in {NoneV, ""}

\* C16: a click whose node id cannot be resolved and that has no selector returns
\* normally and performs no interaction in any tier.
C16_UnresolvedClickNoOp ==
    UnresolvedClick => exec_result.outcome = "return" /\ exec_result.did = <<>>

\* C16 witness: such a click, with the protocol call raising, has come back.
C16_Witness == UnresolvedClick /\ exec_call.drv.resolve = "error"

\* How often the notification `id` occurs in a buffer or list.
CountIn(seq, id) == Cardinality({i \in DOMAIN seq : seq[i] = id})

\* How often call number c of get_and_clear_events returned the notification.
ReturnedBy(id, c) == CountIn(returned[c].console, id) + CountIn(returned[c].errors, id)

Buffered(id) == CountIn(console_logs, id) + CountIn(network_errors, id)

\* C17: every notification delivered is returned exactly once, by the first
\* get_and_clear_events call made after its delivery, by no other call, and until
\* that call it is held in a buffer: none is returned twice and none is dropped.
C17_EachEventOnce ==
    \A k \in DOMAIN delivered :
       LET d == delivered[k]
       IN IF Len(returned) > d.calls
            THEN /\ Buffered(d.id) = 0
                 /\ \A c \in DOMAIN returned :
                       ReturnedBy(d.id, c) = IF c = d.calls + 1 THEN 1 ELSE 0
                 /\ CountIn(returned[d.calls + 1].console, d.id) = 1 <=> d.kind = "console"
            ELSE /\ Buffered(d.id) = 1
                 /\ \A c \in DOMAIN returned : ReturnedBy(d.id, c) = 0

\* C17 witness: two calls have been made, with a notification delivered before the
\* first and another between the first and the second.
C17_Witness ==
    /\ Len(returned) >= 2
    /\ \E j, k \in DOMAIN delivered : delivered[j].calls = 0 /\ delivered[k].calls = 1

\* get_accessibility_snapshot has returned.
Snapped == snapshot # NoCall

\* The raw node at position i is in the snapshot returned.
InOutput(i) == \E j \in DOMAIN snapshot.nodes : snapshot.nodes[j].nodeId = nodes[i].nodeId

\* The positions of the raw nodes the filter keeps.
KeptPositions == {i \in DOMAIN nodes : Matches(nodes[i]) /\ ~Ignored(nodes[i])}

\* C18: the snapshot has at most 200 entries, and its j-th entry is the j-th kept
\* node of the raw list in source order, for as many kept nodes as the cap allows:
\* nothing is reordered, duplicated or skipped.
C18_FirstKeptInOrder ==
    Snapped =>
       LET out == snapshot.nodes
           Rank(i) == Cardinality({k \in KeptPositions : k <= i})
       IN /\ Len(out) <= NodeCap
          /\ Len(out) = IF Cardinality(KeptPositions) < NodeCap
                          THEN Cardinality(KeptPositions) ELSE NodeCap
          /\ \A i \in KeptPositions :
                Rank(i) <= NodeCap => out[Rank(i)].nodeId = nodes[i].nodeId

\* C18 witness: a raw list of more than 400 nodes, every second one kept, has been
\* filtered: the snapshot is full and its last entry lies beyond position 200.
C18_Witness ==
    /\ Snapped
    /\ Len(nodes) > 2 * NodeCap
    /\ Len(snapshot.nodes) = NodeCap
    /\ snapshot.nodes[NodeCap].nodeId > NodeCap
    /\ Cardinality(KeptPositions) > NodeCap

\* The keep predicate as specified: not ignored, and an interactive role, or a
\* statictext with a name of more than 3 characters, or an image with a name, or
\* any non-empty name.
SpecKeeps(n) ==
    /\ ~Ignored(n)
    /\ \/ RoleOf(n) \in interactive_roles
       \/ RoleOf(n) = "statictext" /\ Len(NameOf(n)) > 3
       \/ RoleOf(n) = "image" /\ Len(NameOf(n)) > 0
       \/ Len(NameOf(n)) > 0

\* C19: (for raw lists within the cap) a node is in the snapshot if and only if it
\* satisfies the specified keep predicate.
C19_KeepIff ==
    (Snapped /\ Len(nodes) <= NodeCap) =>
       \A i \in DOMAIN nodes : InOutput(i) <=> SpecKeeps(nodes[i])

Malformed(raw) == raw \in {"not_json", "json_list", "unknown"}

\* C21: when the endpoint, waiting for a goal or paused, takes a malformed or
\* unknown text from its queue, it stays where it is, starts no session (goal and
\* step mode are unchanged), sends nothing and, when paused, keeps the history.
C21_MalformedDropped ==
    [][(/\ endpoint.pc \in {"wait_goal", "paused"}
        /\ msg_queue # <<>>
        /\ Malformed(Head(msg_queue))
        /\ Len(msg_queue') < Len(msg_queue))
          => /\ endpoint'.pc = endpoint.pc
             /\ endpoint'.goal = endpoint.goal
             /\ endpoint'.step_by_step = endpoint.step_by_step
             /\ endpoint.pc = "paused" => endpoint'.history = endpoint.history
             /\ trace' = trace]_vars

\* The action types of the Decision schema.
SchemaTypes ==
    {"navigate", "click", "type", "hover", "scroll", "press", "wait", "finish", "fail",
     "fail_retry"}

\* The payload conforms to the Decision schema: an object with an action object
\* whose type is one of the schema's.
Conforms(fd) ==
    /\ IsDict(fd)
    /\ "action" \in DOMAIN fd
    /\ IsDict(fd.action)
    /\ "type" \in DOMAIN fd.action
    /\ fd.action.type \in SchemaTypes

\* The loop holds a decision payload that does not conform.
HoldsNonConforming(t) == DOMAIN full_decision[t] # {} /\ ~Conforms(full_decision[t])

\* C22: a payload that does not conform to the schema is handled as the fail
\* action: the loop holding it goes from the thought to the fail branch, where
\* status "failed" is recorded; it never reaches the execution of an action, and no
\* such payload is in the history.
C22_NonConformingFails ==
    /\ \A i \in DOMAIN task_history : Conforms(task_history[i])
    /\ \A t \in Sessions :
          HoldsNonConforming(t) =>
             /\ taskpc[t] \in {"send_thought", "fail_report", "fail_notify"}
             /\ taskpc[t] \in {"fail_report", "fail_notify"} => report_json.status = "failed"

\* A Stop arrived while the endpoint was inside the inner loop of the current goal.
StopReceived == Where({"received"}) # {}

\* C23: when a Stop has arrived during a session, then once that session's loop
\* has ended (the endpoint waits for the next goal and sends nothing more for the
\* session) the server has sent a log notification containing "Interrupted" and a
\* report{url} notification.
C23_StopAcknowledged ==
    (endpoint.pc = "wait_goal" /\ StopReceived) =>
        /\ \E i \in Where({"log"}) : trace[i].arg = "Interrupted"
        /\ Where({"report"}) # {}

\* No control call is in progress, and the orchestrator is marked running without
\* a loop task that is alive.
RunningWithoutLoop ==
    /\ ctlpc = "idle"
    /\ is_running
    /\ active_task = None \/ taskpc[active_task] = "done"

\* C24: when starting the browser fails during Start, no exception leaves start,
\* and once start is over the end status has been recorded through EndSession, an
\* error notification has been sent, and the orchestrator is not marked running
\* without a loop task.
C24_BrowserFailureFinalized ==
    \A i \in Where({"browser_failed"}) :
       /\ Where({"start_raised"}) = {}
       /\ ctlpc = "idle" =>
             /\ \E j \in Where({"EndSession"}) : j > i
             /\ \E j \in Where({"error"}) : j > i
             /\ ~RunningWithoutLoop

\* C30: whenever a stop has been called and is over, by returning or by raising,
\* EndSession("stopped") has been called after the call was made.
C30_StopAlwaysRecords ==
    ctlpc = "idle" =>
       \A i \in Where({"stop_called"}) :
          \E j \in Where({"EndSession"}) : j > i /\ trace[j].arg = "stopped"

\* The notifications that end a session on the decision's word: success, and the
\* error that carries the agent's reason.
EndNotices == {i \in Where({"success", "error"}) :
                  trace[i].kind = "success" \/ trace[i].arg = "agent"}

\* C25: a success notification follows EndSession("success") and an error
\* notification with the agent's reason follows EndSession("failed"); after either
\* notification the session observes nothing, asks for no decision, executes no
\* action and appends nothing to the history.
C25_EndBranches ==
    \A i \in EndNotices :
       /\ \E j \in Where({"EndSession"}) :
             /\ j < i
             /\ trace[j].arg = (IF trace[i].kind = "success" THEN "success" ELSE "failed")
       /\ \A j \in Where({"observe", "decide", "execute", "append"}) : j < i

\* The call entered tier n.
Tried(n) == \E i \in DOMAIN exec_result.tried : exec_result.tried[i] = n

\* Tier n performed the interaction the call asked for.
Satisfied(n) ==
    \E i \in DOMAIN exec_result.did : exec_result.did[i] = Did(n, exec_call.action_type)

\* C26: on an active page tier 1 is entered exactly when a node id is given and
\* the kind is click, type or hover; tier 2 exactly when tier 1 has not performed
\* the interaction, a selector is given and the kind is click, type, hover or
\* scroll; a tier 3 primitive only when neither tier has performed the interaction.
C26_TierOrder ==
    (Executed /\ page) =>
       /\ Tried(1) <=> /\ Truthy(exec_call.node_id)
                       /\ exec_call.action_type \in {"click", "type", "hover"}
       /\ Tried(2) <=> /\ ~Satisfied(1)
                       /\ Truthy(exec_call.selector)
                       /\ exec_call.action_type \in {"click", "type", "hover", "scroll"}
       /\ Tried(3) => ~Satisfied(1) /\ ~Satisfied(2)

\* The steps of the report in memory and of the report on disk carry the indices
\* 1, 2, 3, ... in the order of the calls.
StepsNumbered ==
    /\ \A i \in DOMAIN report_data.steps : report_data.steps[i].step_index = i
    /\ \A i \in DOMAIN report_json.steps : report_json.steps[i].step_index = i

\* Within one session the steps only grow at the end: what was recorded stays as
\* it was.
StepsKept ==
    report_data'.session_id = report_data.session_id =>
       /\ Len(report_data'.steps) >= Len(report_data.steps)
       /\ \A i \in DOMAIN report_data.steps : report_data'.steps[i] = report_data.steps[i]

\* C27: within one session the step records carry the indices 1, 2, 3, ... in call
\* order, and a record once appended is neither changed nor removed.
C27_StepsAppendOnly == []StepsNumbered /\ [][StepsKept]_vars

\* C27 witness: a session has logged three steps, the last one after two actions
\* were appended to the history.
C27_Witness == Len(report_data.steps) = 3 /\ Len(task_history) = 2

\* The events at which a Stop reaches a running session: the receiver of main.py
\* has put it into the queue, or Orchestrator.stop has been called.
StopSeen == Where({"received", "stop_called"})

\* C28: after a Stop has reached a running session, the session begins no Sense
\* phase, makes no call of the decision service, and executes at most one action.
C28_NoNewCycleAfterStop ==
    \A i \in StopSeen :
       /\ \A j \in Where({"observe", "decide"}) : j < i
       /\ Cardinality({j \in Where({"execute"}) : j > i}) <= 1

\* The action the task t is about to execute.
Action(t) == Get(full_decision[t], "action", EmptyDict)

\* The string by which an action names its target: the "selector" field, or the
\* "locator" field the decision service is told to fill.
TargetString(decision) == PyOr(Get(decision, "selector", NoneV), Get(decision, "locator", NoneV))

\* The task t is inside execute_action with a click, type, hover or scroll whose
\* target is given by a string and not by a node id.
StringTargeted(t) ==
    /\ taskpc[t] = "act"
    /\ Get(Action(t), "type", NoneV) \in {"click", "type", "hover", "scroll"}
    /\ ~Truthy(Get(Action(t), "nodeId", NoneV))
    /\ Truthy(TargetString(Action(t)))

\* C29: a click, type, hover or scroll whose target is given only by a selector or
\* locator string is executed with that string as the selector, so that tier 2 is
\* entered for it whatever the driver does.
C29_LocatorPassed ==
    \A t \in Sessions : StringTargeted(t) =>
       /\ trace[Len(trace)].kind = "execute"
       /\ trace[Len(trace)].arg = TargetString(Action(t))
       /\ \A drv \in Drivers :
             LET r == execute_action(Get(Action(t), "type", NoneV), trace[Len(trace)].arg,
                                     Get(Action(t), "value", NoneV), NoneV, page, drv)
             IN \E i \in DOMAIN r.tried : r.tried[i] = 2

\* The stop that start calls on a running session is in progress.
RestartStop == ctlret = "start"

\* The loop task of the session before has ended.
PriorLoopExited == active_task # None => taskpc[active_task] = "done"

\* While start stops the session before: no report session and no loop task of
\* the new start exist; the log of line 64 is sent after the loop has ended; and
\* the status recorded at line 65 is "stopped", on the report of the session before.
RestartOrder ==
    RestartStop =>
       /\ ctlpc \in {"stop_await", "stop_log", "stop_report"}
       /\ current_report_dir # nstarts
       /\ taskpc[nstarts] = "none"
       /\ ctlpc \in {"stop_log", "stop_report"} => PriorLoopExited
       /\ ctlpc = "stop_report" =>
             /\ report_data.session_id = current_report_dir
             /\ report_data.status = "stopped"
             /\ report_json = report_data

\* After a stop of a report session has returned and until start_session is called,
\* the report of the session before stays "stopped" and its loop stays ended.
RestartedBeforeSession ==
    (/\ ctlpc \in {"start_browser", "start_log1"}
     /\ current_report_dir # None
     /\ trace # <<>>
     /\ trace[Len(trace)].kind = "stop_returned") =>
       /\ PriorLoopExited
       /\ report_json.status = "stopped"
       /\ report_data.session_id # nstarts

\* A new loop task finds an empty history, and the first decision call of a
\* session is made with the escalated tier.
FreshSession ==
    /\ \A t \in Sessions : taskpc[t] = "new" => task_history = <<>>
    /\ \A i \in Where({"decide"}) :
          (\A j \in Where({"decide"}) : j >= i) => trace[i].arg = "pro"

\* A start issued while a session is running calls stop first.
StartStopsRunning ==
    (ctlpc = "idle" /\ nstarts' = nstarts + 1 /\ is_running) =>
       /\ ctlret' = "start"
       /\ ctlpc' \in {"stop_await", "stop_log"}
       /\ ~is_running'

\* C31: a Start issued while a session is running first stops it: the prior loop
\* ends, then EndSession("stopped") is recorded on the prior report, and only then
\* is the new report session created and the new loop spawned; the new loop starts
\* on an empty history and its first decision call uses the escalated tier.
C31_RestartOrder ==
    /\ [](RestartOrder /\ RestartedBeforeSession /\ FreshSession)
    /\ [][StartStopsRunning]_vars

\* C31 witness: the second start has stopped a session whose loop was waiting for
\* a decision, and is about to create the new report session.
C31_Witness ==
    /\ nstarts = 2
    /\ ctlpc = "start_log1"
    /\ \E i \in Where({"stop_called"}) : trace[i].arg = "decide"
    /\ trace[Len(trace)].kind = "stop_returned"
    /\ report_json.status = "stopped"

\* The action type of a history entry, as line 99 (main.py 116) reads it.
EntryType(entry) == Get(Get(entry, "action", EmptyDict), "type", NoneV)

\* Neither history holds an entry of type finish or fail.
NoEndEntries ==
    /\ \A i \in DOMAIN task_history : EntryType(task_history[i]) \notin {"finish", "fail"}
    /\ \A i \in DOMAIN endpoint.history :
          EntryType(endpoint.history[i]) \notin {"finish", "fail"}

\* The first decision call of a session is made with the escalated tier and every
\* later one with the standard tier.
FirstCallOnlyEscalated ==
    \A i \in Where({"decide"}) :
       trace[i].arg = (IF \A j \in Where({"decide"}) : j >= i THEN "pro" ELSE "flash")

\* C32: in both loops the history never holds an entry whose action type is finish
\* or fail, and the escalated tier is used for the first decision call of a session
\* and for no later one, the call after a fail_retry entry included.
C32_EscalatedOnlyFirst == NoEndEntries /\ FirstCallOnlyEscalated

\* C32 witness: the endpoint's loop has appended a fail_retry entry and has made
\* the next decision call, with the standard tier.
C32_Witness ==
    /\ endpoint.pc = "decide"
    /\ endpoint.history # <<>>
    /\ EntryType(endpoint.history[Len(endpoint.history)]) = "fail_retry"
    /\ trace[Len(trace)] = Ev("decide", None, "flash")

\* The notification id is among the events ev (a dict of get_and_clear_events).
InEvents(id, ev) ==
    \/ \E k \in DOMAIN ev.console : ev.console[k] = id
    \/ \E k \in DOMAIN ev.errors : ev.errors[k] = id

\* The start of the action that the post-action notification at p follows.
ActionStartOf(p) == CHOOSE a \in Where({"action_start"}) :
                       a < p /\ \A b \in Where({"action_start"}) : b < p => b <= a

\* The notification d was delivered after the start of an action and before the
\* post-action notification at p of that action.
DuringAction(d, p) == ActionStartOf(p) <= d.at /\ d.at < p

\* C33: the events given to a decision call are those of the state notification
\* of its cycle, and a notification buffered between the start of an action and
\* the post-action state notification is carried by that notification and is given
\* to no decision call.
C33_DecisionSeesObserveEvents ==
    /\ \A i \in Where({"decide"}) :
          /\ i > 1
          /\ trace[i - 1].kind = "state"
          /\ trace[i].arg = trace[i - 1].arg
    /\ \A p \in Where({"post_state"}) : \A k \in DOMAIN delivered :
          DuringAction(delivered[k], p) =>
             /\ InEvents(delivered[k].id, trace[p].arg)
             /\ \A i \in Where({"decide"}) : ~InEvents(delivered[k].id, trace[i].arg)

\* C33 witness: a notification was delivered during an action, the post-action
\* state notification carried it, and the decision call of the next cycle has
\* been made.
C33_Witness ==
    \E p \in Where({"post_state"}) : \E k \in DOMAIN delivered :
       /\ DuringAction(delivered[k], p)
       /\ \E i \in Where({"decide"}) : i > p

\* The texts the loop-top drain is about to look at: the queue, or what follows the
\* next_step that ends a pause.
Drainable ==
    IF endpoint.pc = "paused" THEN Tail(msg_queue) ELSE msg_queue

\* The endpoint takes texts from the queue at the top of its inner loop.
DrainStep ==
    /\ \/ endpoint.pc \in {"send_goal", "sense", "post_sense", "send_action_failed"}
       \/ /\ endpoint.pc = "paused"
          /\ msg_queue # <<>>
          /\ MsgType(Head(msg_queue)) = "next_step"
    /\ endpoint'.pc \in {"sense", "send_interrupted"}
    /\ Len(msg_queue') < Len(msg_queue)

\* The number, among the texts received, of the text at the head of the queue.
HeadNumber == endpoint.received - Len(msg_queue) + 1

DrainKeepsSession ==
    DrainStep =>
      /\ endpoint'.goal = endpoint.goal
      /\ endpoint'.step_by_step = endpoint.step_by_step
      /\ endpoint'.full_decision = endpoint.full_decision
      /\ endpoint'.received = endpoint.received
      /\ endpoint'.late = endpoint.late
      /\ IF endpoint.pc = "send_action_failed"
           THEN /\ Len(endpoint'.history) = Len(endpoint.history) + 1
                /\ SubSeq(endpoint'.history, 1, Len(endpoint.history)) = endpoint.history
           ELSE endpoint'.history = endpoint.history
      /\ SubSeq(trace', 1, Len(trace)) = trace
      /\ IF \E i \in DOMAIN Drainable : MsgType(Drainable[i]) = "stop"
           THEN endpoint'.pc = "send_interrupted"
           ELSE endpoint'.pc = "sense" /\ msg_queue' = <<>>

\* A goal message that arrived during a session and is still queued when the
\* endpoint waits for a goal again becomes the goal of a new session.
QueuedGoalStarts ==
    (endpoint.pc = "wait_goal" /\ endpoint'.pc # "wait_goal" /\ HeadNumber \in endpoint.late)
      => /\ endpoint'.pc = "send_goal"
         /\ endpoint'.goal = ParseGoal(Head(msg_queue)).goal
         /\ endpoint'.history = <<>>
         /\ msg_queue' = Tail(msg_queue)

====
